---- MODULE Spec2Model ----
(***************************************************************************)
(* Plugin registry of GeoIPS: the Registry Builder                         *)
(* (geoips/create_plugin_registry.py) that scans the installed packages    *)
(* and persists one record per package, and the Plugin Registry            *)
(* (geoips/plugin_registry.py) that lazily loads and merges the persisted  *)
(* records and answers the registry-only queries.                          *)
(*                                                                         *)
(* A nested Python dict is modelled as the set of its <<path, value>>      *)
(* entries: the path is the sequence of keys leading to a scalar, the      *)
(* value "{}" marks an empty dict at that path and "None" a null.  A       *)
(* scalar is the tree with the single entry << <<>>, value >>.             *)
(***************************************************************************)
EXTENDS Integers, Sequences, FiniteSets, TLC

\* ------------------------------------------------------------------ trees

\* Python values.  A dict is the set of its <<path, value>> entries, the path
\* being the keys from the root; "{}" at a path marks an empty dict there and
\* "None" a null.  The operators below are the built-in operations on them.

Scalar(v) == {<< <<>>, v >>}

EmptyDict == Scalar("{}")

NoneVal == Scalar("None")

\* isinstance(t, dict)
IsDict(t) == \A e \in t : e[1] = <<>> => e[2] = "{}"

\* t.keys()
Keys(t) == {e[1][1] : e \in {x \in t : x[1] # <<>>}}

\* t[k] for k in t
Get(t, k) == {<<Tail(e[1]), e[2]>> : e \in {x \in t : x[1] # <<>> /\ x[1][1] = k}}

\* the entries of sub, moved under key k
Under(k, sub) == {<< <<k>> \o e[1], e[2] >> : e \in sub}

\* t[k] = sub
Put(t, k, sub) == {e \in t : e[1] # <<>> /\ e[1][1] # k} \cup Under(k, sub)

\* {k1: v1, k2: v2}
Dict2(k1, v1, k2, v2) == Put(Put(EmptyDict, k1, v1), k2, v2)

Dict3(k1, v1, k2, v2, k3, v3) == Put(Dict2(k1, v1, k2, v2), k3, v3)

\* Perform an in-place merge of src into dest, preserving any value that
\* already exists in dest: src only fills the gaps, at every depth.
RECURSIVE merge_nested_dicts(_, _)
merge_nested_dicts(dest, src) ==
    IF ~IsDict(dest) \/ ~IsDict(src) THEN dest
    ELSE LET ks == Keys(dest) \cup Keys(src)
             At(k) == IF k \in Keys(dest) /\ k \in Keys(src)
                        THEN merge_nested_dicts(Get(dest, k), Get(src, k))
                      ELSE IF k \in Keys(dest) THEN Get(dest, k)
                      ELSE Get(src, k)
         IN IF ks = {} THEN EmptyDict
            ELSE UNION {Under(k, At(k)) : k \in ks}

\* ------------------------------------------------------------ environment

\* get_entry_point_group("geoips.plugin_packages"), in its order
PkgOrder == <<"pkgA", "pkgB">>

Pkgs == {PkgOrder[i] : i \in DOMAIN PkgOrder}

\* str(resources.files(pkg.value) / "registered_plugins"): the (binary) record
\* the Plugin Registry reads in normal operation
RegistryPath(pkg) == <<pkg, "registered_plugins">>

\* os.path.join(pkg_dir, "registered_plugins.yaml"): the record the Registry
\* Builder writes
WrittenPath(pkg) == <<pkg, "registered_plugins.yaml">>

Paths == {RegistryPath(p) : p \in Pkgs} \cup {WrittenPath(p) : p \in Pkgs}

\* os.path.exists(path) is false
Missing == {}

\* hasattr(self, "_registered_plugins") is false
Unset == {}

\* hasattr(self, "_interface_mapping") is false
UnsetMapping == << <<"<unset>", <<>> >> >>

expected_plugin_types == <<"yaml_based", "module_based", "text_based">>

PkgRoot(pkg) == "/site/" \o pkg

\* the location metadata of one plugin
Leaf(pkg, rel) ==
    Dict3("package", Scalar(pkg), "relpath", Scalar(rel),
          "abspath", Scalar(PkgRoot(pkg) \o "/" \o rel))

\* Every key a record file of the model uses, in one of the orders in which
\* a file may list its keys (a dict iterates in the order of the file).
AllKeys ==
    <<"yaml_based", "module_based", "text_based",
      "algorithms", "products", "interpolators",
      "single_channel", "alg_pkgA", "alg_pkgB", "alg_yaml", "bad_alg",
      "src1", "prodX", "prod_pkgA", "prod_pkgB",
      "('src1', 'prodX')", "('src1', 'prod_pkgA')", "('src1', 'prod_pkgB')",
      "feature_annotators", "default", "output_checkers", "package", "relpath", "abspath">>

Reverse(s) == [i \in DOMAIN s |-> s[Len(s) + 1 - i]]

KeyOrders == {AllKeys, Reverse(AllKeys)}

\* A complete record: products keyed by (source_name, name), algorithms by
\* name.  Both packages register algorithms/single_channel and
\* products/(src1, prodX); each also registers names of its own.
FullRecord(pkg) ==
    Dict3("yaml_based",
          Put(EmptyDict, "products",
              Put(EmptyDict, "src1",
                  Dict2("prodX", Leaf(pkg, "plugins/yaml/products/prodX.yaml"),
                        "prod_" \o pkg, Leaf(pkg, "plugins/yaml/products/own.yaml")))),
          "module_based",
          Put(EmptyDict, "algorithms",
              Dict2("single_channel", Leaf(pkg, "plugins/modules/algorithms/single_channel.py"),
                    "alg_" \o pkg, Leaf(pkg, "plugins/modules/algorithms/own.py"))),
          "text_based", EmptyDict)

\* A record that lacks the top-level keys module_based and text_based, and
\* that lists algorithms under yaml_based.
PartialRecord(pkg) ==
    Put(EmptyDict, "yaml_based",
        Put(EmptyDict, "algorithms",
            Put(EmptyDict, "alg_yaml", Leaf(pkg, "plugins/yaml/algorithms/alg_yaml.yaml"))))

\* A record whose yaml_based section is null ("yaml_based:" with no value).
NullSectionRecord(pkg) ==
    Dict3("yaml_based", NoneVal,
          "module_based",
          Put(EmptyDict, "algorithms",
              Put(EmptyDict, "bad_alg", Leaf(pkg, "plugins/modules/algorithms/bad_alg.py"))),
          "text_based", EmptyDict)

RecordChoices(pkg) == {Missing, FullRecord(pkg), PartialRecord(pkg), NullSectionRecord(pkg)}

\* --------------------------------------------------------------- variables

VARIABLES
    tree,                 \* package -> the files under its plugins directory
    disk,                 \* path -> the record persisted there, or Missing
    keyOrder,             \* the order in which the record files list their keys
    registry_files,       \* PluginRegistry.registry_files
    _is_test,             \* PluginRegistry._is_test
    _registered_plugins,  \* PluginRegistry._registered_plugins, or Unset
    _interface_mapping,   \* PluginRegistry._interface_mapping, or UnsetMapping
    reads,                \* number of record files this registry has opened
    printed,              \* record files whose missing-key error was printed
    load_status,          \* "no": nothing loaded yet, "ok": the load returned,
                          \* "failed": the load raised
    result,               \* what the last operation returned or raised
    yaml_product,         \* the product as its entry of a products list declares it
    product,              \* the record of that product a caller holds and validates
    product_defaults,     \* the product_defaults plugins: name -> plugin
    cached_plugin,        \* the validated product the interface caches, or Unset
    pc,                   \* thread -> where it is in its access to registered_plugins
    reg_index,            \* thread -> the position of its loop over registry_files
    handed,               \* thread -> the registry the access returned, or Unset
    inits,                \* how often _registered_plugins was set to {}
    discarded,            \* an initialisation replaced a registry that held plugins
    overlapped,           \* a thread began its access while another was within its own
    plugin_data,          \* the record a caller hands to PluginModel
    step_data,            \* the step a caller hands to ProductStepDefinitionModel
    output_checker_plugins, \* what output_checkers.get_plugins() returns, in its order
    filename              \* the file a caller hands to select_checker

\* the variables of the products interface
product_vars == <<yaml_product, product, product_defaults, cached_plugin>>

\* the variables of the threads of a multi-threaded host
thread_vars == <<pc, reg_index, handed, inits, discarded, overlapped>>

\* what the callers of the pydantic models hand to them
pydantic_vars == <<plugin_data, step_data>>

\* the variables of the output_checkers interface
checker_vars == <<output_checker_plugins, filename>>

vars == <<tree, disk, keyOrder, registry_files, _is_test, _registered_plugins,
          _interface_mapping, reads, printed, load_status, result, product_vars,
          thread_vars, pydantic_vars, checker_vars>>

\* list(d) for a dict d: its keys in the order of the file
Ordered(S) == SelectSeq(keyOrder, LAMBDA k : k \in S)

\* ---------------------------------------------------------- PluginRegistry

\* The fields of the registry object a load works on, with the error it
\* raised ("" for none).
Self ==
    [rp |-> _registered_plugins, im |-> _interface_mapping, reads |-> reads,
     printed |-> printed, status |-> load_status, err |-> ""]

NoValue == [outcome |-> "none", err |-> "", val |-> EmptyDict, names |-> <<>>,
            mapping |-> <<>>]

Raise(e) == [NoValue EXCEPT !.outcome = "raise", !.err = e]

Return(t) == [NoValue EXCEPT !.outcome = "return", !.val = t]

ReturnNames(s) == [NoValue EXCEPT !.outcome = "return", !.names = s]

ReturnMapping(m) == [NoValue EXCEPT !.outcome = "return", !.mapping = m]

PluginRegistryErrors ==
    {"PluginRegistryError: did not exist, please run 'create_plugin_registries'",
     "PluginRegistryError: Failed reading",
     "PluginRegistryError: does not exist within any package registry"}

ErrMissing == "PluginRegistryError: did not exist, please run 'create_plugin_registries'"

ErrFailedReading == "PluginRegistryError: Failed reading"

ErrUnknownInterface == "PluginRegistryError: does not exist within any package registry"

\* ensure_plugin_types_exist raises iff this is FALSE
ensure_plugin_types_exist(reg_dict) ==
    \A i \in DOMAIN expected_plugin_types : expected_plugin_types[i] \in Keys(reg_dict)

\* self._interface_mapping[plugin_type].append(interface)
MappingAppend(im, plugin_type, interface) ==
    [i \in DOMAIN im |->
        IF im[i][1] = plugin_type THEN <<plugin_type, Append(im[i][2], interface)>>
        ELSE im[i]]

\* self._interface_mapping[plugin_type] = []
MappingReset(im, plugin_type) ==
    IF \E i \in DOMAIN im : im[i][1] = plugin_type
      THEN [i \in DOMAIN im |->
              IF im[i][1] = plugin_type THEN <<plugin_type, <<>> >> ELSE im[i]]
    ELSE Append(im, <<plugin_type, <<>> >>)

\* MergeInterface without its merge branch: an interface the registry already
\* holds is left as the first package registered it.
MergeInterfaceSkipsLater(st, plugin_type, interface, interface_dict) ==
    LET section == Get(st.rp, plugin_type)
    IN IF interface \notin Keys(section)
         THEN [st EXCEPT
                 !.rp = Put(st.rp, plugin_type, Put(section, interface, interface_dict)),
                 !.im = MappingAppend(st.im, plugin_type, interface)]
       ELSE st

\* MergeInterface with the merge replaced by an assignment: the later
\* package's interface section replaces the registered one.
MergeInterfaceOverwrites(st, plugin_type, interface, interface_dict) ==
    LET section == Get(st.rp, plugin_type)
    IN [st EXCEPT
          !.rp = Put(st.rp, plugin_type, Put(section, interface, interface_dict)),
          !.im = IF interface \notin Keys(section)
                   THEN MappingAppend(st.im, plugin_type, interface)
                 ELSE st.im]

\* MergeInterface with the append outside the if: an interface a later
\* record registers again is listed in the mapping once more.
MergeInterfaceAppendsAlways(st, plugin_type, interface, interface_dict) ==
    LET section == Get(st.rp, plugin_type)
    IN IF interface \notin Keys(section)
         THEN [st EXCEPT
                 !.rp = Put(st.rp, plugin_type, Put(section, interface, interface_dict)),
                 !.im = MappingAppend(st.im, plugin_type, interface)]
       ELSE [st EXCEPT
               !.rp = Put(st.rp, plugin_type,
                          Put(section, interface,
                              merge_nested_dicts(Get(section, interface), interface_dict))),
               !.im = MappingAppend(st.im, plugin_type, interface)]

\* One interface of one record: registered as it is when the merged registry
\* does not hold the interface yet, merged underneath the registered one
\* otherwise.
MergeInterface(st, plugin_type, interface, interface_dict) ==
    LET section == Get(st.rp, plugin_type)
    IN IF interface \notin Keys(section)
         THEN [st EXCEPT
                 !.rp = Put(st.rp, plugin_type, Put(section, interface, interface_dict)),
                 !.im = MappingAppend(st.im, plugin_type, interface),
                 !.err = IF \E i \in DOMAIN st.im : st.im[i][1] = plugin_type
                           THEN @ ELSE "KeyError"]
       ELSE [st EXCEPT
               !.rp = Put(st.rp, plugin_type,
                          Put(section, interface,
                              merge_nested_dicts(Get(section, interface), interface_dict)))]

RECURSIVE MergeInterfaces(_, _, _, _)
MergeInterfaces(st, plugin_type, section, interfaces) ==
    IF interfaces = <<>> \/ st.err # "" THEN st
    ELSE MergeInterfaces(
             MergeInterface(st, plugin_type, Head(interfaces),
                            Get(section, Head(interfaces))),
             plugin_type, section, Tail(interfaces))

\* One plugin type of one record.  Iterating a section that is not a mapping
\* raises TypeError, after the type has been entered in the registry.
MergePluginType(st, pkg_plugins, plugin_type) ==
    LET st1 == IF plugin_type \notin Keys(st.rp)
                 THEN [st EXCEPT !.rp = Put(st.rp, plugin_type, EmptyDict),
                                 !.im = MappingReset(st.im, plugin_type)]
               ELSE st
        section == Get(pkg_plugins, plugin_type)
    IN IF ~IsDict(section) THEN [st1 EXCEPT !.err = "TypeError"]
       ELSE MergeInterfaces(st1, plugin_type, section, Ordered(Keys(section)))

RECURSIVE MergePluginTypes(_, _, _)
MergePluginTypes(st, pkg_plugins, plugin_types) ==
    IF plugin_types = <<>> \/ st.err # "" THEN st
    ELSE MergePluginTypes(MergePluginType(st, pkg_plugins, Head(plugin_types)),
                          pkg_plugins, Tail(plugin_types))

\* One record file that exists: read, checked for its plugin types (the
\* error of the check is printed, not raised) and merged.
ReadAndMerge(st, reg_path) ==
    LET pkg_plugins == disk[reg_path]
        st1 == [st EXCEPT
                  !.reads = @ + 1,
                  !.printed = IF ensure_plugin_types_exist(pkg_plugins) THEN @
                              ELSE @ \cup {reg_path}]
        Except(st2) ==
            IF st2.err = "TypeError" THEN [st2 EXCEPT !.err = ErrFailedReading] ELSE st2
    IN Except(MergePluginTypes(st1, pkg_plugins, Ordered(Keys(pkg_plugins))))

\* LoadFile without the os.path.exists check failing the load: a missing
\* record counts as a package without plugins.
LoadFileSkipsMissing(st, reg_path) ==
    IF disk[reg_path] = Missing THEN st
    ELSE ReadAndMerge(st, reg_path)

\* The body of the loop over self.registry_files.
LoadFile(st, reg_path) ==
    IF disk[reg_path] = Missing THEN [st EXCEPT !.err = ErrMissing]
    ELSE ReadAndMerge(st, reg_path)

RECURSIVE LoadFiles(_, _)
LoadFiles(st, files) ==
    IF files = <<>> \/ st.err # "" THEN st
    ELSE LoadFiles(LoadFile(st, Head(files)), Tail(files))

\* The load: both attributes are set empty, then every record is merged in.
Load(st) ==
    LET Loaded(st1) == [st1 EXCEPT !.status = IF st1.err = "" THEN "ok" ELSE "failed"]
    IN Loaded(LoadFiles([st EXCEPT !.rp = EmptyDict, !.im = <<>>], registry_files))

_set_class_properties(st) ==
    IF st.rp = Unset THEN Load(st) ELSE st

\* registered_plugins without its hasattr check: every access loads again.
registered_plugins_reloads(st) == Load(st)

\* the property registered_plugins: the state after it, st.err set when it raised
registered_plugins(st) ==
    IF st.rp = Unset THEN _set_class_properties(st) ELSE st

\* the property interface_mapping
interface_mapping(st) ==
    IF st.im = UnsetMapping THEN _set_class_properties(st) ELSE st

\* The plugin type identify_plugin_type finds in the mapping im: the first
\* one that lists the interface, "" when none does.
RECURSIVE FirstPluginType(_, _)
FirstPluginType(im, interface) ==
    IF im = <<>> THEN ""
    ELSE IF \E i \in DOMAIN Head(im)[2] : Head(im)[2][i] = interface THEN Head(im)[1]
    ELSE FirstPluginType(Tail(im), interface)

\* identify_plugin_type without its final raise: plugin_type stays None.
identify_plugin_type_returns_none(st, interface) ==
    LET Search(st1) == [st |-> st1, plugin_type |-> FirstPluginType(st1.im, interface)]
    IN Search(interface_mapping(st))

\* identify_plugin_type: the state after it and the plugin type, st.err set
\* when it raised
identify_plugin_type(st, interface) ==
    LET Found(st1, plugin_type) ==
            IF plugin_type = ""
              THEN [st |-> [st1 EXCEPT !.err = ErrUnknownInterface], plugin_type |-> ""]
            ELSE [st |-> st1, plugin_type |-> plugin_type]
        Search(st1) ==
            IF st1.err # "" THEN [st |-> st1, plugin_type |-> ""]
            ELSE Found(st1, FirstPluginType(st1.im, interface))
    IN Search(interface_mapping(st))

\* d[k1][k2]...: the value, or the error the first failing subscript raises
RECURSIVE Subscript(_, _)
Subscript(d, ks) ==
    IF ks = <<>> THEN Return(d)
    ELSE IF ~IsDict(d) THEN Raise("TypeError")
    ELSE IF Head(ks) \notin Keys(d) THEN Raise("KeyError")
    ELSE Subscript(Get(d, Head(ks)), Tail(ks))

\* self.registered_plugins[plugin_type][interface] followed by the
\* subscripts ks, after identify_plugin_type(interface)
Lookup(st, interface, ks) ==
    LET Index(st1, plugin_type) ==
            IF st1.err # "" THEN [st |-> st1, res |-> Raise(st1.err)]
            ELSE [st |-> st1,
                  res |-> Subscript(st1.rp, <<plugin_type, interface>> \o ks)]
        Identified(id) ==
            IF id.st.err # "" THEN Index(id.st, "")
            ELSE Index(registered_plugins(id.st), id.plugin_type)
    IN Identified(identify_plugin_type(st, interface))

\* get_plugin_info: plugin_name is <<name>> for a string and
\* <<source_name, name>> for a tuple
get_plugin_info(st, interface, plugin_name) == Lookup(st, interface, plugin_name)

list_plugins(st, interface) == Lookup(st, interface, <<>>)

get_interface_plugin_names(st, interface) ==
    LET ListKeys(l) ==
            IF l.res.outcome # "return" THEN l
            ELSE IF ~IsDict(l.res.val) THEN [l EXCEPT !.res = Raise("AttributeError")]
            ELSE [l EXCEPT !.res = ReturnNames(Ordered(Keys(l.res.val)))]
    IN ListKeys(Lookup(st, interface, <<>>))

\* --------------------------------------------------------- Registry Builder

\* The attributes of geoips.interfaces that getattr finds.
KnownInterfaces ==
    {"algorithms", "interpolators", "products", "feature_annotators",
     "ascii_palettes", "output_checkers"}

\* The working directories a rebuild is run from.
Cwds == {"/site", "/site/pkgA"}

\* os.path.relpath(filepath): relative to the working directory
RelPath(pkg, rel, cwd) ==
    IF cwd = PkgRoot(pkg) THEN rel
    ELSE IF cwd = "/site" THEN pkg \o "/" \o rel
    ELSE "../" \o pkg \o "/" \o rel

AbsPath(pkg, rel) == PkgRoot(pkg) \o "/" \o rel

\* A file under <package>/plugins.  "" stands for an attribute or key the
\* file does not have.
YamlFile(rel, interface, family, name, subs) ==
    [ext |-> "yaml", rel |-> rel, parses |-> TRUE, imp |-> "ok", init |-> FALSE,
     interface |-> interface, family |-> family, name |-> name, subs |-> subs]

PyFile(rel, imp, interface, name) ==
    [ext |-> "py", rel |-> rel, parses |-> TRUE, imp |-> imp, init |-> FALSE,
     interface |-> interface, family |-> "", name |-> name, subs |-> <<>>]

\* An entry of the list in the spec block of a list-family plugin.
SubPlugin(source_names, name) == [source_names |-> source_names, name |-> name]

\* str((source_name, name))
TupleStr(source_name, name) == "('" \o source_name \o "', '" \o name \o "')"

\* interface_module._create_registered_plugin_names(yaml_subplg): the names
\* one sub-plugin is registered under, as str() prints them; <<"KeyError">>
\* when the sub-plugin lacks a key the rule reads.
_create_registered_plugin_names(interface, yaml_subplg) ==
    IF yaml_subplg.name = "" THEN <<"KeyError">>
    ELSE IF interface = "products"
      THEN IF yaml_subplg.source_names = <<"">> THEN <<"KeyError">>
           ELSE [i \in DOMAIN yaml_subplg.source_names |->
                    TupleStr(yaml_subplg.source_names[i], yaml_subplg.name)]
    ELSE <<yaml_subplg.name>>

YamlLeaf(pkg, rel, cwd) ==
    Dict3("package", Scalar(pkg), "relpath", Scalar(RelPath(pkg, rel, cwd)),
          "abspath", Scalar(AbsPath(pkg, rel)))

RECURSIVE PutNames(_, _, _)
PutNames(section, names, leaf) ==
    IF names = <<>> THEN section
    ELSE PutNames(Put(section, Head(names), leaf), Tail(names), leaf)

\* AddSubPlugins without the try/except around a sub-plugin: the KeyError of
\* a malformed sub-plugin ends the scan.
RECURSIVE AddSubPluginsRaises(_, _, _, _)
AddSubPluginsRaises(b, interface_name, subs, leaf) ==
    IF subs = <<>> THEN b
    ELSE LET subplg_names == _create_registered_plugin_names(interface_name, Head(subs))
         IN IF subplg_names = <<"KeyError">> THEN [b EXCEPT !.err = "KeyError"]
            ELSE AddSubPluginsRaises(
                     [b EXCEPT !.plugins =
                        Put(@, interface_name,
                            PutNames(Get(@, interface_name), subplg_names, leaf))],
                     interface_name, Tail(subs), leaf)

\* The loop over the sub-plugins of a list-family file: b is the build so
\* far, [plugins, warnings, err].
RECURSIVE AddSubPlugins(_, _, _, _)
AddSubPlugins(b, interface_name, subs, leaf) ==
    IF subs = <<>> THEN b
    ELSE LET subplg_names == _create_registered_plugin_names(interface_name, Head(subs))
             b1 == IF subplg_names = <<"KeyError">>
                     THEN [b EXCEPT !.warnings = @ + 1]
                   ELSE [b EXCEPT !.plugins =
                           Put(@, interface_name,
                               PutNames(Get(@, interface_name), subplg_names, leaf))]
         IN AddSubPlugins(b1, interface_name, Tail(subs), leaf)

\* add_yaml_plugin with the errors of yaml.safe_load and of getattr caught:
\* a file that does not parse or names no known interface is left out.
add_yaml_plugin_drops_file(b, f, package, cwd) ==
    IF ~f.parses \/ f.interface \notin KnownInterfaces THEN b
    ELSE LET b1 == IF f.interface \notin Keys(b.plugins)
                     THEN [b EXCEPT !.plugins = Put(@, f.interface, EmptyDict)]
                   ELSE b
             leaf == YamlLeaf(package, f.rel, cwd)
         IN IF f.family = "list"
              THEN AddSubPlugins(b1, f.interface, f.subs, leaf)
            ELSE [b1 EXCEPT !.plugins =
                    Put(@, f.interface, Put(Get(@, f.interface), f.name, leaf))]

add_yaml_plugin(b, f, package, cwd) ==
    IF ~f.parses THEN [b EXCEPT !.err = "YAMLError"]
    ELSE IF f.interface = "" THEN [b EXCEPT !.err = "KeyError"]
    ELSE IF f.interface \notin KnownInterfaces THEN [b EXCEPT !.err = "AttributeError"]
    ELSE LET b1 == IF f.interface \notin Keys(b.plugins)
                     THEN [b EXCEPT !.plugins = Put(@, f.interface, EmptyDict)]
                   ELSE b
             leaf == YamlLeaf(package, f.rel, cwd)
         IN IF f.family = "" THEN [b1 EXCEPT !.err = "KeyError"]
            ELSE IF f.family = "list"
              THEN AddSubPlugins(b1, f.interface, f.subs, leaf)
            ELSE IF f.name = "" THEN [b1 EXCEPT !.err = "KeyError"]
            ELSE [b1 EXCEPT !.plugins =
                    Put(@, f.interface, Put(Get(@, f.interface), f.name, leaf))]

add_module_plugin(b, f, package) ==
    IF f.init THEN b
    ELSE IF f.imp \in {"ImportError", "AttributeError"} THEN b
    ELSE IF f.imp # "ok" THEN [b EXCEPT !.err = f.imp]
    ELSE IF f.interface = "" THEN b
    ELSE LET b1 == IF f.interface \notin Keys(b.plugins)
                     THEN [b EXCEPT !.plugins = Put(@, f.interface, EmptyDict)]
                   ELSE b
         IN IF f.name = "" THEN b1
            ELSE [b1 EXCEPT !.plugins =
                    Put(@, f.interface,
                        Put(Get(@, f.interface), f.name,
                            Put(EmptyDict, "abspath", Scalar(AbsPath(package, f.rel)))))]

\* The loop over the files of one kind; the first error ends the scan.
RECURSIVE AddFiles(_, _, _, _)
AddFiles(b, files, package, cwd) ==
    IF files = <<>> \/ b.err # "" THEN b
    ELSE AddFiles(IF Head(files).ext = "yaml"
                    THEN add_yaml_plugin(b, Head(files), package, cwd)
                  ELSE add_module_plugin(b, Head(files), package),
                  Tail(files), package, cwd)

\* parse_plugin_paths: the yaml files first, the python files after them
parse_plugin_paths(files, package, cwd) ==
    LET yamls == SelectSeq(files, LAMBDA f : f.ext = "yaml")
        pyfiles == SelectSeq(files, LAMBDA f : f.ext = "py")
        b0 == [plugins |-> EmptyDict, warnings |-> 0, err |-> ""]
    IN AddFiles(AddFiles(b0, yamls, package, cwd), pyfiles, package, cwd)

\* write_registered_plugins(pkg_dir, plugins)
write_registered_plugins(d, package, plugins) ==
    [d EXCEPT ![WrittenPath(package)] = plugins]

\* create_plugin_registry with the record written whether or not the scan
\* of the package failed: what was collected before the error is persisted.
RECURSIVE create_plugin_registry_writes_partial(_, _, _)
create_plugin_registry_writes_partial(run, plugin_packages, cwd) ==
    IF plugin_packages = <<>> THEN run
    ELSE LET package == Head(plugin_packages)
             Parsed(b) ==
                 IF b.err # ""
                   THEN [run EXCEPT
                           !.disk = write_registered_plugins(@, package, b.plugins),
                           !.err = b.err, !.warnings = @ + b.warnings]
                 ELSE create_plugin_registry_writes_partial(
                          [run EXCEPT
                             !.disk = write_registered_plugins(@, package, b.plugins),
                             !.warnings = @ + b.warnings],
                          Tail(plugin_packages), cwd)
         IN Parsed(parse_plugin_paths(tree[package], package, cwd))

\* create_plugin_registry: the disk after it, the warnings logged and the
\* error that ended it ("" when every package was written)
RECURSIVE create_plugin_registry(_, _, _)
create_plugin_registry(run, plugin_packages, cwd) ==
    IF plugin_packages = <<>> THEN run
    ELSE LET package == Head(plugin_packages)
             Parsed(b) ==
                 IF b.err # ""
                   THEN [run EXCEPT !.err = b.err, !.warnings = @ + b.warnings]
                 ELSE create_plugin_registry(
                          [run EXCEPT
                             !.disk = write_registered_plugins(@, package, b.plugins),
                             !.warnings = @ + b.warnings],
                          Tail(plugin_packages), cwd)
         IN Parsed(parse_plugin_paths(tree[package], package, cwd))

\* The value of a scalar.
Value(t) == (CHOOSE e \in t : e[1] = <<>>)[2]

\* The file a path names: <package root>/../<package>/<rel> is the file
\* <rel> of <package>; any other path is taken as it is written.
Locate(path, rels) ==
    LET dotted == {x \in Pkgs \X Pkgs \X rels :
                     path = PkgRoot(x[1]) \o "/../" \o x[2] \o "/" \o x[3]}
    IN IF dotted = {} THEN path
       ELSE LET x == CHOOSE y \in dotted : TRUE IN AbsPath(x[2], x[3])

\* str(files(self.plugin_entry["package"]) / self.plugin_entry["relpath"])
path_to_ascii(plugin_entry) ==
    PkgRoot(Value(Get(plugin_entry, "package"))) \o "/"
        \o Value(Get(plugin_entry, "relpath"))

\* ------------------------------------------------------------ source trees

\* A package whose every file registers.
GoodTree(pkg) ==
    <<YamlFile("plugins/yaml/products/prods.yaml", "products", "list", "prods",
               <<SubPlugin(<<"src1">>, "prodX"), SubPlugin(<<"src1">>, "prod_" \o pkg)>>),
      YamlFile("plugins/yaml/feature_annotators/default.yaml", "feature_annotators",
               "cartopy", "default", <<>>),
      [PyFile("plugins/modules/algorithms/__init__.py", "ok", "", "") EXCEPT !.init = TRUE],
      PyFile("plugins/modules/algorithms/single_channel.py", "ok", "algorithms",
             "single_channel"),
      PyFile("plugins/modules/algorithms/own.py", "ok", "algorithms", "alg_" \o pkg)>>

\* A package with files the scan skips: a sub-plugin without a name, a module
\* that fails to import and a module that declares interface but no name.
SkipTree(pkg) ==
    <<YamlFile("plugins/yaml/products/prods.yaml", "products", "list", "prods",
               <<SubPlugin(<<"src1">>, "prodX"), SubPlugin(<<"src1">>, "")>>),
      PyFile("plugins/modules/algorithms/broken.py", "ImportError", "algorithms", "bad_alg"),
      PyFile("plugins/modules/output_checkers/noname.py", "ok", "output_checkers", ""),
      PyFile("plugins/modules/algorithms/own.py", "ok", "algorithms", "alg_" \o pkg)>>

\* A package with a YAML plugin of an interface geoips.interfaces lacks.
UnknownInterfaceTree(pkg) ==
    <<YamlFile("plugins/yaml/products/prods.yaml", "products", "list", "prods",
               <<SubPlugin(<<"src1">>, "prodX")>>),
      YamlFile("plugins/yaml/sectors/odd.yaml", "no_such_interface", "static", "odd", <<>>),
      PyFile("plugins/modules/algorithms/own.py", "ok", "algorithms", "alg_" \o pkg)>>

\* A package with a module whose import raises an error that is neither an
\* ImportError nor an AttributeError.
RaisingModuleTree(pkg) ==
    <<YamlFile("plugins/yaml/products/prods.yaml", "products", "list", "prods",
               <<SubPlugin(<<"src1">>, "prodX")>>),
      PyFile("plugins/modules/algorithms/broken.py", "SyntaxError", "algorithms", "bad_alg"),
      PyFile("plugins/modules/algorithms/own.py", "ok", "algorithms", "alg_" \o pkg)>>

\* A package with a YAML file that yaml.safe_load cannot parse.
BadYamlTree(pkg) ==
    <<[YamlFile("plugins/yaml/products/prods.yaml", "products", "list", "prods",
                <<SubPlugin(<<"src1">>, "prodX")>>) EXCEPT !.parses = FALSE],
      PyFile("plugins/modules/algorithms/own.py", "ok", "algorithms", "alg_" \o pkg)>>

\* The names of the source trees, and the tree of a name.
TreeKinds == {"good", "skip", "unknown_interface", "raising_module", "bad_yaml"}

SourceTree(pkg, kind) ==
    CASE kind = "good" -> GoodTree(pkg)
      [] kind = "skip" -> SkipTree(pkg)
      [] kind = "unknown_interface" -> UnknownInterfaceTree(pkg)
      [] kind = "raising_module" -> RaisingModuleTree(pkg)
      [] kind = "bad_yaml" -> BadYamlTree(pkg)

\* --------------------------------------------------------------- products

\* d.pop(k): the dict without the key
Pop(t, k) ==
    LET rest == {e \in t : e[1] # <<>> /\ e[1][1] # k}
    IN IF rest = {} THEN EmptyDict ELSE rest

\* The families self.validators holds a "product_defaults.specs.<family>"
\* validator for.  The specs of the model satisfy them.
FamilyValidators == {"famA", "famB"}

\* The outcome of a validation: the record as the call leaves it (it is
\* changed in place) and what the call returns or raises.
Validated(p, res) == [p |-> p, res |-> res]

\* product_defaults.get_plugin(name) finds a plugin of that name
HasDefaults(name) == name \in DOMAIN product_defaults

\* validate_product with the arguments of the merge exchanged: the defaults
\* plugin is merged over the product.
validate_product_defaults_win(prod) ==
    IF "family" \in Keys(prod)
      THEN IF Value(Get(prod, "family")) \notin FamilyValidators
             THEN Validated(prod, Raise("ValidationError"))
           ELSE Validated(prod, Return(prod))
    ELSE IF "product_defaults" \in Keys(prod)
      THEN IF ~HasDefaults(Value(Get(prod, "product_defaults")))
             THEN Validated(Pop(prod, "product_defaults"), Raise("PluginError"))
           ELSE LET defaults == product_defaults[Value(Get(prod, "product_defaults"))]
                    merged == merge_nested_dicts(
                                  defaults,
                                  Put(Pop(prod, "product_defaults"), "family",
                                      Get(defaults, "family")))
                IN Validated(merged, Return(merged))
    ELSE Validated(prod, Raise("ValidationError"))

\* validate_product: a product that has family is checked against the spec
\* validator of the family, whether or not it has product_defaults; one
\* that has only product_defaults gets the family of the defaults plugin
\* and is merged over it.
validate_product(prod) ==
    IF "family" \in Keys(prod)
      THEN IF Value(Get(prod, "family")) \notin FamilyValidators
             THEN Validated(prod, Raise("ValidationError"))
           ELSE Validated(prod, Return(prod))
    ELSE IF "product_defaults" \in Keys(prod)
      THEN IF ~HasDefaults(Value(Get(prod, "product_defaults")))
             THEN Validated(Pop(prod, "product_defaults"), Raise("PluginError"))
           ELSE LET defaults == product_defaults[Value(Get(prod, "product_defaults"))]
                    merged == merge_nested_dicts(
                                  Put(Pop(prod, "product_defaults"), "family",
                                      Get(defaults, "family")),
                                  defaults)
                IN Validated(merged, Return(merged))
    ELSE Validated(prod, Raise("ValidationError"))

\* YamlPluginValidator.validate, for a plugin without product_defaults: a
\* plugin without family, or of a family without schema, is invalid.
BaseValidate(plugin) ==
    IF "family" \notin Keys(plugin) THEN Validated(plugin, Raise("ValidationError"))
    ELSE IF Value(Get(plugin, "family")) \notin FamilyValidators
      THEN Validated(plugin, Raise("ValidationError"))
    ELSE Validated(plugin, Return(plugin))

\* ProductsPluginValidator.validate
validate(plugin) ==
    IF "product_defaults" \in Keys(plugin)
      THEN IF "family" \in Keys(plugin)
             THEN Validated(plugin, Raise("ValidationError"))
           ELSE validate_product(plugin)
    ELSE BaseValidate(plugin)

\* The (source_name, name) key of the product of the products list.
ProductKey == <<"src1", "prodX">>

\* BaseYamlInterface.get_plugin((source_name, name)): the cached plugin,
\* validated and cached on the first resolution; c is the cache.
BaseGetPlugin(c, source_name, name) ==
    IF <<source_name, name>> # ProductKey THEN [c |-> c, res |-> Raise("PluginError")]
    ELSE IF c # Unset THEN [c |-> c, res |-> Return(c)]
    ELSE LET Cache(v) ==
                 IF v.res.outcome = "raise" THEN [c |-> c, res |-> v.res]
                 ELSE [c |-> v.p, res |-> Return(v.p)]
         IN Cache(validate_product(yaml_product))

\* product_spec_override is None
NoOverride == Scalar("None")

\* OverrideArgs with the two tests exchanged: the block "all" is preferred
\* to the block of the product's name.
OverrideArgsAllFirst(name, product_spec_override) ==
    IF "all" \in Keys(product_spec_override) THEN Get(product_spec_override, "all")
    ELSE IF name \in Keys(product_spec_override) THEN Get(product_spec_override, name)
    ELSE EmptyDict

\* the block of the override map that get_plugin applies to the product
OverrideArgs(name, product_spec_override) ==
    IF name \in Keys(product_spec_override) THEN Get(product_spec_override, name)
    ELSE IF "all" \in Keys(product_spec_override) THEN Get(product_spec_override, "all")
    ELSE EmptyDict

\* get_plugin with the arguments of the merge exchanged: the spec of the
\* product is merged underneath the override block.
get_plugin_override_wins(c, source_name, name, product_spec_override) ==
    LET Override(prod) ==
            IF prod.res.outcome = "raise" \/ product_spec_override = NoOverride THEN prod
            ELSE LET prod_plugin ==
                         Put(prod.res.val, "spec",
                             merge_nested_dicts(
                                 OverrideArgs(name, product_spec_override),
                                 Get(prod.res.val, "spec")))
                 IN [c |-> prod_plugin, res |-> Return(prod_plugin)]
    IN Override(BaseGetPlugin(c, source_name, name))

\* ProductsInterface.get_plugin: prod_plugin is the object the cache holds,
\* so the assignment to prod_plugin["spec"] is an assignment to it.
get_plugin(c, source_name, name, product_spec_override) ==
    LET Override(prod) ==
            IF prod.res.outcome = "raise" \/ product_spec_override = NoOverride THEN prod
            ELSE LET prod_plugin ==
                         Put(prod.res.val, "spec",
                             merge_nested_dicts(
                                 Get(prod.res.val, "spec"),
                                 OverrideArgs(name, product_spec_override)))
                 IN [c |-> prod_plugin, res |-> Return(prod_plugin)]
    IN Override(BaseGetPlugin(c, source_name, name))

\* ----------------------------------------------------------------- actions

\* The lists of _test_registry_files a test hands to the constructor: the
\* records the builder writes, any of them, in any order.
TestFileLists ==
    {<<WrittenPath(p)>> : p \in Pkgs}
        \cup {<<WrittenPath(pq[1]), WrittenPath(pq[2])>> :
                 pq \in {x \in Pkgs \X Pkgs : x[1] # x[2]}}

\* The interfaces and the plugin names the callers ask for.
QueryInterfaces == {"algorithms", "products", "interpolators"}

\* get_plugin_info's arguments: the interface, then the name (one string) or
\* the two parts of a (source_name, name) tuple.
QueryPlugins ==
    {<<"algorithms", "single_channel">>, <<"algorithms", "alg_pkgB">>,
     <<"products", "src1", "prodX">>, <<"products", "single_channel">>,
     <<"interpolators", "single_channel">>}

Result(op, args, first, r) ==
    [op |-> op, args |-> args, first |-> first, outcome |-> r.outcome,
     err |-> r.err, val |-> r.val, names |-> r.names, mapping |-> r.mapping,
     warnings |-> 0]

\* The registry object after an operation that left it in state st.
Update(st) ==
    /\ _registered_plugins' = st.rp
    /\ _interface_mapping' = st.im
    /\ reads' = st.reads
    /\ printed' = st.printed
    /\ load_status' = st.status

NotLoaded == _registered_plugins = Unset

\* A registry operation op(args) that left the object in state st and
\* returned or raised r.
Finish(op, args, st, r) ==
    /\ Update(st)
    /\ result' = Result(op, args, NotLoaded, r)
    /\ UNCHANGED <<tree, disk, keyOrder, registry_files, _is_test, product_vars,
                   thread_vars, pydantic_vars,
                   checker_vars>>

\* PluginRegistry(_test_registry_files): a new registry object
Construct(_test_registry_files) ==
    /\ IF _test_registry_files # <<>>
         THEN /\ registry_files' = _test_registry_files
              /\ _is_test' = TRUE
       ELSE /\ registry_files' = [i \in DOMAIN PkgOrder |-> RegistryPath(PkgOrder[i])]
            /\ _is_test' = FALSE
    /\ _registered_plugins' = Unset
    /\ _interface_mapping' = UnsetMapping
    /\ reads' = 0
    /\ printed' = {}
    /\ load_status' = "no"
    /\ result' = Result("PluginRegistry", <<>>, FALSE, NoValue)
    /\ UNCHANGED <<tree, disk, keyOrder, product_vars,
                   thread_vars, pydantic_vars,
                   checker_vars>>

AccessRegisteredPlugins ==
    LET Got(st) == Finish("registered_plugins", <<>>, st,
                          IF st.err # "" THEN Raise(st.err) ELSE Return(st.rp))
    IN Got(registered_plugins(Self))

AccessInterfaceMapping ==
    LET Got(st) == Finish("interface_mapping", <<>>, st,
                          IF st.err # "" THEN Raise(st.err) ELSE ReturnMapping(st.im))
    IN Got(interface_mapping(Self))

IdentifyPluginType(interface) ==
    LET Got(id) == Finish("identify_plugin_type", <<interface>>, id.st,
                          IF id.st.err # "" THEN Raise(id.st.err)
                          ELSE Return(Scalar(id.plugin_type)))
    IN Got(identify_plugin_type(Self, interface))

GetPluginInfo(interface, plugin_name) ==
    LET Got(l) == Finish("get_plugin_info", <<interface>> \o plugin_name, l.st, l.res)
    IN Got(get_plugin_info(Self, interface, plugin_name))

ListPlugins(interface) ==
    LET Got(l) == Finish("list_plugins", <<interface>>, l.st, l.res)
    IN Got(list_plugins(Self, interface))

GetInterfacePluginNames(interface) ==
    LET Got(l) == Finish("get_interface_plugin_names", <<interface>>, l.st, l.res)
    IN Got(get_interface_plugin_names(Self, interface))

\* main() of create_plugin_registry, run from the working directory cwd:
\* sys.exit(0) when every package was written, the error otherwise.
Rebuild(cwd) ==
    LET Exit(run) ==
            /\ disk' = run.disk
            /\ result' = [Result("create_plugin_registry", <<cwd>>, FALSE,
                                 IF run.err # "" THEN Raise(run.err) ELSE Return(EmptyDict))
                            EXCEPT !.warnings = run.warnings]
            /\ UNCHANGED <<tree, keyOrder, registry_files, _is_test, _registered_plugins,
                           _interface_mapping, reads, printed, load_status, product_vars,
                   thread_vars, pydantic_vars,
                   checker_vars>>
    IN Exit(create_plugin_registry([disk |-> disk, warnings |-> 0, err |-> ""],
                                   PkgOrder, cwd))

\* The module-level plugin_registry = PluginRegistry(), nothing loaded yet.
InitRegistry ==
    /\ registry_files = [i \in DOMAIN PkgOrder |-> RegistryPath(PkgOrder[i])]
    /\ _is_test = FALSE
    /\ _registered_plugins = Unset
    /\ _interface_mapping = UnsetMapping
    /\ reads = 0
    /\ printed = {}
    /\ load_status = "no"
    /\ result = Result("PluginRegistry", <<>>, FALSE, NoValue)

\* No product in play.
InitNoProduct ==
    /\ yaml_product = EmptyDict
    /\ product = EmptyDict
    /\ product_defaults = <<>>
    /\ cached_plugin = Unset

\* The threads of the host; no thread has accessed the registry.
Threads == {"t1", "t2"}

InitNoThreads ==
    /\ pc = [t \in Threads |-> "idle"]
    /\ reg_index = [t \in Threads |-> 0]
    /\ handed = [t \in Threads |-> Unset]
    /\ inits = 0
    /\ discarded = FALSE
    /\ overlapped = FALSE

\* No record handed to a pydantic model.
InitNoModel ==
    /\ plugin_data = <<>>
    /\ step_data = <<>>

\* No output checker asked for.
InitNoChecker ==
    /\ output_checker_plugins = <<>>
    /\ filename = <<>>

\* Any record, or none, where the registry looks for each package's record;
\* nothing written by the builder yet.
Init ==
    /\ tree = [p \in Pkgs |-> GoodTree(p)]
    /\ \E a \in RecordChoices("pkgA"), b \in RecordChoices("pkgB") :
          disk = [x \in Paths |->
                    IF x = RegistryPath("pkgA") THEN a
                    ELSE IF x = RegistryPath("pkgB") THEN b
                    ELSE Missing]
    /\ keyOrder \in KeyOrders
    /\ InitRegistry
    /\ InitNoProduct
    /\ InitNoThreads
    /\ InitNoModel
    /\ InitNoChecker

Next ==
    \/ \E files \in TestFileLists \cup {<<>>} : Construct(files)
    \/ AccessRegisteredPlugins
    \/ AccessInterfaceMapping
    \/ \E interface \in QueryInterfaces : IdentifyPluginType(interface)
    \/ \E q \in QueryPlugins : GetPluginInfo(Head(q), Tail(q))
    \/ \E interface \in QueryInterfaces : ListPlugins(interface)
    \/ \E interface \in QueryInterfaces : GetInterfacePluginNames(interface)
    \/ \E cwd \in Cwds : Rebuild(cwd)

Spec == Init /\ [][Next]_vars

\* Every key of a persisted record is one the file order ranks.
KeysRanked ==
    \A x \in Paths : \A e \in disk[x] :
        {e[1][i] : i \in DOMAIN e[1]} \subseteq {AllKeys[j] : j \in DOMAIN AllKeys}

\* The plugin files of a package are edited: its tree becomes the source
\* tree of the kind.
EditTree(pkg, kind) ==
    /\ SourceTree(pkg, kind) # tree[pkg]
    /\ tree' = [tree EXCEPT ![pkg] = SourceTree(pkg, kind)]
    /\ result' = Result("edit", <<pkg>>, FALSE, NoValue)
    /\ UNCHANGED <<disk, keyOrder, registry_files, _is_test, _registered_plugins,
                   _interface_mapping, reads, printed, load_status, product_vars,
                   thread_vars, pydantic_vars,
                   checker_vars>>

\* The packages as installed, with any plugin files, before any rebuild.
InitBuild ==
    /\ \E kinds \in [Pkgs -> TreeKinds] :
          tree = [p \in Pkgs |-> SourceTree(p, kinds[p])]
    /\ disk = [x \in Paths |-> Missing]
    /\ keyOrder = AllKeys
    /\ InitRegistry
    /\ InitNoProduct
    /\ InitNoThreads
    /\ InitNoModel
    /\ InitNoChecker

NextBuild ==
    \/ \E cwd \in Cwds : Rebuild(cwd)
    \/ \E p \in Pkgs : \E kind \in TreeKinds : EditTree(p, kind)

\* The Registry Builder alone: rebuilds from any working directory, with
\* edits of the plugin files between them.
SpecBuild == InitBuild /\ [][NextBuild]_vars

\* The spec blocks a product of the model declares.
ProductSpecs ==
    {EmptyDict,
     Put(EmptyDict, "X", Scalar("5")),
     Put(EmptyDict, "Y", Scalar("7")),
     Dict2("X", Scalar("5"), "Z", Put(EmptyDict, "a", Scalar("6")))}

\* The ways a product declares where its family comes from: family, a
\* family without validator, product_defaults, a product_defaults no
\* plugin has, both keys, neither.
ProductKinds ==
    {Put(EmptyDict, "family", Scalar("famA")),
     Put(EmptyDict, "family", Scalar("famZ")),
     Put(EmptyDict, "product_defaults", Scalar("Defaults1")),
     Put(EmptyDict, "product_defaults", Scalar("NoSuch")),
     Dict2("family", Scalar("famA"), "product_defaults", Scalar("Defaults1")),
     EmptyDict}

\* The entries of the products list: the product src1/prodX, in every kind
\* and with every spec.
ProductChoices ==
    {Put(Put(k, "name", Scalar("prodX")), "spec", sp) :
        k \in ProductKinds, sp \in ProductSpecs}

\* The product_defaults plugin Defaults1, as its file may declare it.
DefaultsChoices ==
    {Put(Dict3("interface", Scalar("product_defaults"), "name", Scalar("Defaults1"),
               "family", Scalar("famB")), "spec", sp) :
        sp \in {Dict2("X", Scalar("1"), "Y", Scalar("2")),
                Dict2("Y", Scalar("2"),
                      "Z", Dict2("a", Scalar("3"), "b", Scalar("4"))),
                EmptyDict}}

\* The product_spec_override maps the callers pass.
OverrideKinds ==
    {"all", "named_and_all", "other", "all_nested", "source_name", "named_and_other_all"}

OverrideChoice(kind) ==
    CASE kind = "all" -> Put(EmptyDict, "all", Put(EmptyDict, "Y", Scalar("9")))
      [] kind = "named_and_all" ->
            Dict2("prodX", Put(EmptyDict, "Y", Scalar("8")),
                  "all", Put(EmptyDict, "Y", Scalar("9")))
      [] kind = "other" -> Put(EmptyDict, "other", Put(EmptyDict, "Y", Scalar("8")))
      [] kind = "all_nested" ->
            Put(EmptyDict, "all",
                Dict2("X", Scalar("9"), "Z", Dict2("a", Scalar("9"), "c", Scalar("9"))))
      [] kind = "source_name" -> Put(EmptyDict, "src1", Put(EmptyDict, "Y", Scalar("8")))
      [] kind = "named_and_other_all" ->
            Dict2("prodX", Put(EmptyDict, "Y", Scalar("8")),
                  "all", Put(EmptyDict, "W", Scalar("9")))
      [] kind = "none" -> NoOverride

\* The caller reads the product's entry of the products list anew.
LoadYaml ==
    /\ product' = yaml_product
    /\ result' = Result("safe_load", <<>>, FALSE, Return(yaml_product))
    /\ UNCHANGED <<tree, disk, keyOrder, registry_files, _is_test, _registered_plugins,
                   _interface_mapping, reads, printed, load_status,
                   yaml_product, product_defaults, cached_plugin, thread_vars, pydantic_vars,
                   checker_vars>>

\* A validation of the record the caller holds, op(product): the record is
\* left as v.p, and v.res is returned or raised.
ValidationDone(op, v) ==
    /\ product' = v.p
    /\ result' = Result(op, <<>>, FALSE, v.res)
    /\ UNCHANGED <<tree, disk, keyOrder, registry_files, _is_test, _registered_plugins,
                   _interface_mapping, reads, printed, load_status,
                   yaml_product, product_defaults, cached_plugin, thread_vars, pydantic_vars,
                   checker_vars>>

\* products.validator.validate(product)
Validate == ValidationDone("validate", validate(product))

\* products.validator.validate_product(product)
ValidateProduct == ValidationDone("validate_product", validate_product(product))

\* products.get_plugin(source_name, name, product_spec_override), with the
\* override map of the kind
GetPlugin(source_name, name, kind) ==
    LET Got(g) ==
            /\ cached_plugin' = g.c
            /\ result' = Result("get_plugin", <<source_name, name, OverrideChoice(kind)>>,
                                cached_plugin = Unset, g.res)
            /\ UNCHANGED <<tree, disk, keyOrder, registry_files, _is_test,
                           _registered_plugins, _interface_mapping, reads, printed,
                           load_status, yaml_product, product, product_defaults,
                           thread_vars, pydantic_vars,
                   checker_vars>>
    IN Got(get_plugin(cached_plugin, source_name, name, OverrideChoice(kind)))

\* A products list with one product and the product_defaults plugin it may
\* name; nothing resolved yet.
InitProducts ==
    /\ tree = [p \in Pkgs |-> GoodTree(p)]
    /\ disk = [x \in Paths |-> Missing]
    /\ keyOrder = AllKeys
    /\ InitRegistry
    /\ yaml_product \in ProductChoices
    /\ product = yaml_product
    /\ \E d \in DefaultsChoices : product_defaults = [n \in {"Defaults1"} |-> d]
    /\ cached_plugin = Unset
    /\ InitNoThreads
    /\ InitNoModel
    /\ InitNoChecker

NextProducts ==
    \/ LoadYaml
    \/ Validate
    \/ ValidateProduct
    \/ \E name \in {"prodX", "other"} :
          \E kind \in OverrideKinds \cup {"none"} :
              GetPlugin("src1", name, kind)

\* The products interface alone: validations of a product record and
\* resolutions of the product, with and without overrides.
SpecProducts == InitProducts /\ [][NextProducts]_vars

\* hasattr(self, "_registered_plugins") finds nothing, whatever is set
NeverHasRegisteredPlugins == FALSE

\* hasattr(self, "_registered_plugins")
HasRegisteredPlugins == _registered_plugins # Unset

\* A step of a thread that leaves the files and the products alone.
ThreadFrame ==
    UNCHANGED <<tree, disk, keyOrder, registry_files, _is_test, product_vars,
                pydantic_vars, checker_vars>>

\* A thread reads the property registered_plugins: with the attribute set
\* it goes on to return it, without it it calls _set_class_properties.
Enter(t) ==
    /\ pc[t] = "idle"
    /\ pc' = [pc EXCEPT ![t] = IF HasRegisteredPlugins THEN "return"
                               ELSE "_set_class_properties"]
    /\ overlapped' = (overlapped \/ \E u \in Threads \ {t} : pc[u] \notin {"idle", "done"})
    /\ ThreadFrame
    /\ UNCHANGED <<_registered_plugins, _interface_mapping, reads, printed, load_status,
                   result, reg_index, handed, inits, discarded>>

\* _set_class_properties looks for the attribute again.
Recheck(t) ==
    /\ pc[t] = "_set_class_properties"
    /\ pc' = [pc EXCEPT ![t] = IF HasRegisteredPlugins THEN "return" ELSE "init"]
    /\ ThreadFrame
    /\ UNCHANGED <<_registered_plugins, _interface_mapping, reads, printed, load_status,
                   result, reg_index, handed, inits, discarded, overlapped>>

\* self._registered_plugins = {}
InitRegistered(t) ==
    /\ pc[t] = "init"
    /\ _registered_plugins' = EmptyDict
    /\ inits' = inits + 1
    /\ discarded' = (discarded \/ _registered_plugins \notin {Unset, EmptyDict})
    /\ pc' = [pc EXCEPT ![t] = "init_mapping"]
    /\ ThreadFrame
    /\ UNCHANGED <<_interface_mapping, reads, printed, load_status, result, reg_index,
                   handed, overlapped>>

\* self._interface_mapping = {}
InitMapping(t) ==
    /\ pc[t] = "init_mapping"
    /\ _interface_mapping' = <<>>
    /\ reg_index' = [reg_index EXCEPT ![t] = 1]
    /\ pc' = [pc EXCEPT ![t] = "loop"]
    /\ ThreadFrame
    /\ UNCHANGED <<_registered_plugins, reads, printed, load_status, result, handed,
                   inits, discarded, overlapped>>

\* One pass of the loop over self.registry_files: the record is read and
\* merged into the attributes as they are now; an error ends the access.
LoadOne(t) ==
    /\ pc[t] = "loop"
    /\ reg_index[t] <= Len(registry_files)
    /\ LET Merged(st) ==
               /\ _registered_plugins' = st.rp
               /\ _interface_mapping' = st.im
               /\ reads' = st.reads
               /\ printed' = st.printed
               /\ IF st.err # ""
                    THEN /\ pc' = [pc EXCEPT ![t] = "done"]
                         /\ load_status' = "failed"
                         /\ result' = Result("registered_plugins", <<t>>, TRUE, Raise(st.err))
                         /\ UNCHANGED reg_index
                  ELSE /\ pc' = [pc EXCEPT ![t] = "loop"]
                       /\ reg_index' = [reg_index EXCEPT ![t] = @ + 1]
                       /\ UNCHANGED <<load_status, result>>
       IN Merged(LoadFile(Self, registry_files[reg_index[t]]))
    /\ ThreadFrame
    /\ UNCHANGED <<handed, inits, discarded, overlapped>>

\* The loop is over: _set_class_properties returns to the property.
EndLoop(t) ==
    /\ pc[t] = "loop"
    /\ reg_index[t] > Len(registry_files)
    /\ pc' = [pc EXCEPT ![t] = "return"]
    /\ load_status' = "ok"
    /\ ThreadFrame
    /\ UNCHANGED <<_registered_plugins, _interface_mapping, reads, printed, result,
                   reg_index, handed, inits, discarded, overlapped>>

\* return self._registered_plugins
ReturnRegistered(t) ==
    /\ pc[t] = "return"
    /\ handed' = [handed EXCEPT ![t] = _registered_plugins]
    /\ result' = Result("registered_plugins", <<t>>, reg_index[t] > 0,
                        Return(_registered_plugins))
    /\ pc' = [pc EXCEPT ![t] = "done"]
    /\ ThreadFrame
    /\ UNCHANGED <<_registered_plugins, _interface_mapping, reads, printed, load_status,
                   reg_index, inits, discarded, overlapped>>

\* The module-level registry in a host with two threads, each making its
\* first access to registered_plugins; the records are as in Init.
InitThreads == Init

NextThreads ==
    \E t \in Threads :
        \/ Enter(t)
        \/ Recheck(t)
        \/ InitRegistered(t)
        \/ InitMapping(t)
        \/ LoadOne(t)
        \/ EndLoop(t)
        \/ ReturnRegistered(t)

\* The first accesses of two threads, interleaved in any way, no lock.
SpecThreads == InitThreads /\ [][NextThreads]_vars

\* ---------------------------------------------------------- pydantic models

\* The strings the models look into are sequences of characters.
Whitespace == {" ", "\n"}

\* the characters c with c.isupper()
Uppercase == {"A", "T"}

RECURSIVE LStrip(_)
LStrip(s) == IF s # <<>> /\ Head(s) \in Whitespace THEN LStrip(Tail(s)) ELSE s

RECURSIVE RStrip(_)
RStrip(s) ==
    IF s # <<>> /\ s[Len(s)] \in Whitespace THEN RStrip(SubSeq(s, 1, Len(s) - 1)) ELSE s

\* s.strip()
strip(s) == RStrip(LStrip(s))

\* s.split(sep)[0] for a separator of one character
RECURSIVE FirstPart(_, _)
FirstPart(s, sep) ==
    IF s = <<>> \/ Head(s) = sep THEN <<>>
    ELSE <<Head(s)>> \o FirstPart(Tail(s), sep)

\* c in s
Contains(s, c) == \E i \in DOMAIN s : s[i] = c

\* s.endswith(c)
endswith(s, c) == s # <<>> /\ s[Len(s)] = c

\* The model validator that runs before the fields are validated: the
\* values as it leaves them, err set when it raised.
_set_description(values) ==
    IF "description" \in DOMAIN values THEN [values |-> values, err |-> ""]
    ELSE IF "docstring" \notin DOMAIN values THEN [values |-> values, err |-> "KeyError"]
    ELSE [values |-> [k \in DOMAIN values \cup {"description"} |->
                        IF k = "description"
                          THEN FirstPart(strip(values["docstring"]), ".")
                        ELSE values[k]],
          err |-> ""]

\* The field validator of description: "" when the value passes, the type
\* of its error otherwise (value[0] of an empty string is an IndexError).
validate_one_line_numpy_docstring(value) ==
    IF Contains(value, "\n") THEN "single_line"
    ELSE IF value = <<>> THEN "IndexError"
    ELSE IF ~(value[1] \in Uppercase /\ endswith(value, ".")) THEN "format_error"
    ELSE ""

\* PluginModel(**values) for a record whose interface, family, name,
\* package, relpath and abspath are valid, as those of valid_plugin_data:
\* the model, or the error raised.
PluginModel(values) ==
    LET CheckFields(b) ==
            IF b.err # "" THEN Raise(b.err)
            ELSE IF "docstring" \notin DOMAIN b.values THEN Raise("ValidationError: missing")
            ELSE LET e == validate_one_line_numpy_docstring(b.values["description"])
                 IN IF e = "" THEN Return(b.values)
                    ELSE IF e = "IndexError" THEN Raise(e)
                    ELSE Raise("ValidationError: " \o e)
    IN CheckFields(_set_description(values))

\* The docstring of the fixture valid_plugin_data.
ValidPluginDocstring ==
    <<"T", "h", "i", "s", " ", "i", "s", " ", "a", " ", "v", "a", "l", "i", "d", " ",
    "n", "u", "m", "p", "y", " ", "d", "o", "c", "s", "t", "r", "i", "n", "g", ".">>

\* The characters of the docstrings tried, and their greatest length.
DocChars == {"A", "b", ".", " ", "\n"}

MaxDocLen == 3

Docstrings ==
    UNION {[1..n -> DocChars] : n \in 0..MaxDocLen} \cup {ValidPluginDocstring}

\* The descriptions a record supplies.
Descriptions == {<<"A", "b", ".">>, <<"b">>, <<>>}

\* The records handed to PluginModel: with a docstring only, with a
\* docstring and a description, with a description only, with neither.
PluginInputs ==
    {[k \in {"docstring"} |-> d] : d \in Docstrings}
        \cup {[k \in {"docstring", "description"} |->
                 IF k = "docstring" THEN ValidPluginDocstring ELSE x] : x \in Descriptions}
        \cup {[k \in {"description"} |-> x] : x \in Descriptions}
        \cup {<<>>}

\* What the specifications of the models and of the checkers start from:
\* the installed packages, nothing built, loaded or resolved.
InitIdle ==
    /\ tree = [p \in Pkgs |-> GoodTree(p)]
    /\ disk = [x \in Paths |-> Missing]
    /\ keyOrder = AllKeys
    /\ InitRegistry
    /\ InitNoProduct
    /\ InitNoThreads

\* What a call of a model or of select_checker leaves alone.
CallFrame ==
    UNCHANGED <<tree, disk, keyOrder, registry_files, _is_test, _registered_plugins,
                _interface_mapping, reads, printed, load_status, product_vars,
                thread_vars, pydantic_vars, checker_vars>>

\* PluginModel(**plugin_data)
ValidatePlugin ==
    /\ result' = Result("PluginModel", <<>>, FALSE, PluginModel(plugin_data))
    /\ CallFrame

InitPlugin ==
    /\ InitIdle
    /\ InitNoChecker
    /\ step_data = <<>>
    /\ plugin_data \in PluginInputs

NextPlugin == ValidatePlugin

\* PluginModel alone: one record, validated.
SpecPlugin == InitPlugin /\ [][NextPlugin]_vars

\* A call that raised a pydantic ValidationError with errors of these types.
ValidationError(types) == [Raise("ValidationError") EXCEPT !.names = types]

\* The attributes of geoips.interfaces the model knows, and the names of
\* the plugins interface.get_plugins() returns for each.
InterfacePlugins ==
    [readers |-> {"abi_netcdf"}, algorithms |-> {"single_channel"},
     interpolators |-> {"interp_nearest"}, output_formatters |-> {"imagery_clean"},
     filename_formatters |-> {"geoips_fname"}, output_checkers |-> {"text_checker"}]

\* s[:-1] for the plugin types of the model
AllButLast(s) ==
    CASE s = "reader" -> "reade"
      [] s = "readers" -> "reader"
      [] s = "algorithm" -> "algorith"
      [] s = "output_checker" -> "output_checke"
      [] s = "bogus" -> "bogu"
      [] s = "ss" -> "s"
      [] s = "" -> ""

\* get_plugin_names(plugin_type): the names, or the error raised
get_plugin_names(plugin_type) ==
    LET interface_name == IF AllButLast(plugin_type) # "s" THEN plugin_type \o "s"
                          ELSE plugin_type
    IN IF interface_name \notin DOMAIN InterfacePlugins
         THEN [err |-> "AttributeError", names |-> {}]
       ELSE [err |-> "", names |-> InterfacePlugins[interface_name]]

\* The plugin types X for which the module defines a class XArgumentsModel.
ArgumentsModels ==
    {"output_formatter", "filename_formatter", "algorithm", "interpolator", "reader"}

\* What pydantic takes for a bool field, and for a str field, when not strict;
\* an argument is a pair of its Python type and its text.
IsBool(v) ==
    \/ v[1] = "bool"
    \/ v[1] = "str" /\ v[2] \in {"true", "false", "yes", "no", "on", "off", "1", "0"}

IsStr(v) == v[1] = "str"

IsListOfStr(v) == v[1] = "list[str]"

\* ReaderArgumentsModel(**arguments) raises no error: every declared field
\* that is given has the declared type; other fields are allowed.
ReaderArgumentsModel(arguments) ==
    /\ "area_def" \in DOMAIN arguments => IsStr(arguments["area_def"])
    /\ "chans" \in DOMAIN arguments => IsListOfStr(arguments["chans"])
    /\ "variables" \in DOMAIN arguments => IsListOfStr(arguments["variables"])
    /\ "metadata_only" \in DOMAIN arguments => IsBool(arguments["metadata_only"])
    /\ "self_register" \in DOMAIN arguments => IsStr(arguments["self_register"])
    /\ "fnames" \in DOMAIN arguments => IsListOfStr(arguments["fnames"])

\* The model validator that runs before the fields: "" when it returns
\* the values, the error it raises otherwise.
_validate_plugin_arguments(values) ==
    IF DOMAIN values = {} THEN "ValueError"
    ELSE IF "type" \notin DOMAIN values \/ values["type"] = "" THEN "ValueError"
    ELSE IF values["type"] \notin ArgumentsModels THEN "ValueError"
    ELSE IF /\ values["type"] = "reader"
            /\ "arguments" \in DOMAIN values
            /\ ~ReaderArgumentsModel(values["arguments"])
      THEN "ValueError"
    ELSE ""

\* The errors of the fields of ProductStepDefinitionModel, in the order
\* of the fields: name is required, no other field is allowed.
StepFieldErrors(values) ==
    (IF "name" \in DOMAIN values THEN <<>> ELSE <<"missing">>)
        \o (IF DOMAIN values \subseteq {"type", "name", "arguments"} THEN <<>>
            ELSE <<"extra_forbidden">>)

\* The model validator that runs after the fields: "" when it returns
\* the model, the error it raises otherwise.
_validate_plugin_name(model) ==
    LET Named(valid_plugin_names) ==
            IF valid_plugin_names.err # "" THEN valid_plugin_names.err
            ELSE IF model["name"] \notin valid_plugin_names.names THEN "ValueError"
            ELSE ""
    IN Named(get_plugin_names(model["type"]))

\* ProductStepDefinitionModel(**values): the model, or the error raised.
\* A ValueError of a validator is raised as a ValidationError of type
\* value_error; any other error of a validator is raised as it is.
ProductStepDefinitionModel(values) ==
    IF _validate_plugin_arguments(values) # "" THEN ValidationError(<<"value_error">>)
    ELSE IF StepFieldErrors(values) # <<>> THEN ValidationError(StepFieldErrors(values))
    ELSE LET model == [k \in {"type", "name", "arguments"} |->
                          IF k \in DOMAIN values THEN values[k] ELSE <<>>]
             After(e) ==
                 IF e = "" THEN Return(model)
                 ELSE IF e = "ValueError" THEN ValidationError(<<"value_error">>)
                 ELSE Raise(e)
         IN After(_validate_plugin_name(model))

\* The arguments of the fixture valid_step_data.
ValidStepArguments ==
    [area_def |-> <<"str", "None">>, chans |-> <<"list[str]", "None">>,
     metadata_only |-> <<"bool", "False">>, self_register |-> <<"bool", "False">>]

\* The fixture valid_step_data.
ValidStepData ==
    [type |-> "reader", name |-> "abi_netcdf", arguments |-> ValidStepArguments]

\* The types, names and arguments of the steps tried.
StepTypes == {"reader", "readers", "algorithm", "output_checker", "bogus", ""}

StepNames == {"abi_netcdf", "single_channel", "no_such"}

StepArguments ==
    {<<>>, ValidStepArguments,
     [ValidStepArguments EXCEPT !.self_register = <<"str", "False">>],
     [ValidStepArguments EXCEPT !.area_def = <<"int", "5">>,
                                !.self_register = <<"str", "False">>]}

\* The steps handed to ProductStepDefinitionModel: any of the fields
\* present, with or without a field the model does not declare.
StepInputs ==
    {[k \in dom |->
        CASE k = "type" -> t
          [] k = "name" -> n
          [] k = "arguments" -> a
          [] k = "unexpected_field" -> "unexpected_value"] :
       dom \in SUBSET {"type", "name", "arguments", "unexpected_field"},
       t \in StepTypes, n \in StepNames, a \in StepArguments}

\* ProductStepDefinitionModel(**step_data)
ValidateStep ==
    /\ result' = Result("ProductStepDefinitionModel", <<>>, FALSE,
                        ProductStepDefinitionModel(step_data))
    /\ CallFrame

InitStep ==
    /\ InitIdle
    /\ InitNoChecker
    /\ plugin_data = <<>>
    /\ step_data \in StepInputs

NextStep == ValidateStep

\* ProductStepDefinitionModel alone: one step, validated.
SpecStep == InitStep /\ [][NextStep]_vars

\* ----------------------------------------------------------- output_checkers

\* splitext(fname)[-1] in [".tif"]
correct_file_format(fname) == fname.ext \in {".tif"}

\* text_checker.correct_type(fname): whether it is a text file, or the
\* error of open() and readline() for a file that is missing or not text
correct_type(fname) ==
    IF fname.ext \in {"", ".txt", ".text", ".yaml"}
      THEN IF fname.content = "missing" THEN Raise("FileNotFoundError")
           ELSE IF fname.content = "binary" THEN Raise("UnicodeDecodeError")
           ELSE Return(Scalar("True"))
    ELSE Return(Scalar("False"))

\* The functions each output checker module defines.
ModuleFunctions ==
    [text_checker |-> {"correct_type", "text_match", "call"},
     geotiff |-> {"get_test_files", "perform_test_comparisons", "correct_file_format",
                  "outputs_match", "call"}]

\* output_checker.module.correct_type(filename)
ModuleCorrectType(module, fname) ==
    IF "correct_type" \notin ModuleFunctions[module] THEN Raise("AttributeError")
    ELSE correct_type(fname)

\* The loop of select_checker over the plugins left, tested being the
\* plugins tested so far: the module returned or the error raised, with
\* the plugins tested in names.
RECURSIVE SelectLoop(_, _, _)
SelectLoop(plugins, fname, tested) ==
    IF plugins = <<>>
      THEN [Raise("TypeError") EXCEPT !.names = tested]
    ELSE LET Tested(checker_found) ==
                 IF checker_found.outcome = "raise"
                   THEN [checker_found EXCEPT !.names = Append(tested, Head(plugins))]
                 ELSE IF checker_found.val = Scalar("True")
                   THEN [Return(Scalar(Head(plugins))) EXCEPT
                           !.names = Append(tested, Head(plugins))]
                 ELSE SelectLoop(Tail(plugins), fname, Append(tested, Head(plugins)))
         IN Tested(ModuleCorrectType(Head(plugins), fname))

\* OutputCheckersInterface.select_checker(filename)
select_checker(plugins, fname) == SelectLoop(plugins, fname, <<>>)

\* The output checker plugins registered, in the orders get_plugins() may
\* return them.
CheckerLists ==
    {<<>>, <<"text_checker">>, <<"geotiff">>, <<"text_checker", "geotiff">>,
     <<"geotiff", "text_checker">>}

\* The files handed to select_checker: the extension of the name and what
\* open() finds there.
Filenames ==
    [ext : {"", ".txt", ".text", ".yaml", ".tif", ".png"},
     content : {"text", "binary", "missing"}]

\* output_checkers.select_checker(filename)
SelectChecker ==
    /\ result' = Result("select_checker", <<>>, FALSE,
                        select_checker(output_checker_plugins, filename))
    /\ CallFrame

InitCheckers ==
    /\ InitIdle
    /\ InitNoModel
    /\ output_checker_plugins \in CheckerLists
    /\ filename \in Filenames

NextCheckers == SelectChecker

\* The output_checkers interface alone: one file, one selection.
SpecCheckers == InitCheckers /\ [][NextCheckers]_vars

\* ------------------------------------------------------------------ claims

RegistryOps ==
    {"registered_plugins", "interface_mapping", "identify_plugin_type",
     "get_plugin_info", "list_plugins", "get_interface_plugin_names"}

\* The records of the configured packages, as they are on disk.
Records == [i \in DOMAIN registry_files |-> disk[registry_files[i]]]

SomeRecordMissing == \E i \in DOMAIN Records : Records[i] = Missing

\* The last operation was the one that loaded the registry, and the load
\* returned: the records on disk are the ones it read.
JustLoaded == result.first /\ load_status = "ok"

\* A record one of whose plugin types is not a mapping.
Unreadable(rec) == \E k \in Keys(rec) : ~IsDict(Get(rec, k))

\* rec[plugin_type][interface], {} when the record has no such section
SectionOf(rec, plugin_type, interface) ==
    IF plugin_type \in Keys(rec) /\ IsDict(Get(rec, plugin_type))
       /\ interface \in Keys(Get(rec, plugin_type))
      THEN Get(Get(rec, plugin_type), interface)
    ELSE {}

\* the plugin names rec registers for the plugin type and the interface
NamesOf(rec, plugin_type, interface) ==
    IF IsDict(SectionOf(rec, plugin_type, interface))
      THEN Keys(SectionOf(rec, plugin_type, interface))
    ELSE {}

\* C1: while a configured package has no persisted record, no access to
\* registered_plugins or interface_mapping returns a registry, the first
\* access or a later one.
C1_NoRegistryWhileRecordMissing ==
    (result.op \in {"registered_plugins", "interface_mapping"} /\ SomeRecordMissing)
        => result.outcome # "return"

\* C2: when the record of a configured package does not exist, the first
\* access to registered_plugins raises PluginRegistryError and returns no
\* registry, whatever the position of the missing record; the error is the
\* one that asks for a rebuild unless a record before the missing one failed
\* to read.
C2_FirstAccessRaisesWhenRecordMissing ==
    (result.op = "registered_plugins" /\ result.first /\ SomeRecordMissing)
        => /\ result.outcome = "raise"
           /\ result.err \in {ErrMissing, ErrFailedReading}
           /\ result.val = EmptyDict
           /\ (\A i \in DOMAIN Records :
                  (Records[i] = Missing /\ \A j \in 1..(i - 1) : ~Unreadable(Records[j]))
                      => result.err = ErrMissing)

\* The first access found the first record and raised for the missing second.
C2_Witness ==
    /\ result.op = "registered_plugins" /\ result.first
    /\ Len(registry_files) = 2
    /\ Records[1] # Missing /\ ~Unreadable(Records[1])
    /\ Records[2] = Missing
    /\ result.outcome = "raise" /\ result.err = ErrMissing

\* C3: the merged registry is loaded at most once.  The load that succeeds
\* has read every record once; after it no operation of the registry reads
\* a record, changes the merged structure or its mapping, or writes a file,
\* and registered_plugins and interface_mapping return the structure held.
C3_LoadedOnce ==
    /\ [](load_status = "ok" => reads = Len(registry_files))
    /\ [][(load_status = "ok" /\ result'.op \in RegistryOps)
            => /\ _registered_plugins' = _registered_plugins
               /\ _interface_mapping' = _interface_mapping
               /\ reads' = reads
               /\ disk' = disk
               /\ (result'.op = "registered_plugins"
                     => result'.outcome = "return" /\ result'.val = _registered_plugins)
               /\ (result'.op = "interface_mapping"
                     => result'.outcome = "return"
                        /\ result'.mapping = _interface_mapping)]_vars

\* A later access to registered_plugins, after a load of two records.
C3_Witness ==
    /\ load_status = "ok" /\ reads = 2
    /\ result.op = "registered_plugins" /\ ~result.first
    /\ result.outcome = "return" /\ result.val = _registered_plugins
    /\ _registered_plugins # EmptyDict

\* the keys at the first two levels of the records and of the registry
TopKeys == UNION {Keys(Records[i]) : i \in DOMAIN Records} \cup Keys(_registered_plugins)

SecondKeys(k) ==
    UNION {IF k \in Keys(Records[i]) /\ IsDict(Get(Records[i], k))
             THEN Keys(Get(Records[i], k)) ELSE {} : i \in DOMAIN Records}
        \cup (IF k \in Keys(_registered_plugins) THEN Keys(Get(_registered_plugins, k))
              ELSE {})

\* C4: after a successful load the plugin names of every plugin type and
\* interface of the merged registry are the union of the names the packages'
\* records register there.
C4_NamesAreUnion ==
    JustLoaded =>
        \A k \in TopKeys : \A i \in SecondKeys(k) :
            NamesOf(_registered_plugins, k, i)
                = UNION {NamesOf(Records[r], k, i) : r \in DOMAIN Records}

\* Two complete records merged: each package's own algorithm is there.
C4_Witness ==
    /\ JustLoaded /\ ~_is_test
    /\ Records[1] = FullRecord("pkgA") /\ Records[2] = FullRecord("pkgB")
    /\ NamesOf(_registered_plugins, "module_based", "algorithms")
         = {"single_channel", "alg_pkgA", "alg_pkgB"}

\* the (plugin type, interface, name) triples that both records register
Collisions(r1, r2) ==
    UNION {UNION {{<<k, i, n>> : n \in NamesOf(r1, k, i) \cap NamesOf(r2, k, i)} :
                    i \in SecondKeys(k)} : k \in TopKeys}

ModuleFiles(pkg) ==
    {f \in {tree[pkg][i] : i \in DOMAIN tree[pkg]} :
        f.ext = "py" /\ ~f.init /\ f.imp = "ok" /\ f.interface # "" /\ f.name # ""}

YamlFiles(pkg) ==
    {f \in {tree[pkg][i] : i \in DOMAIN tree[pkg]} :
        f.ext = "yaml" /\ f.family # "list" /\ f.name # ""}

ListFiles(pkg) ==
    {f \in {tree[pkg][i] : i \in DOMAIN tree[pkg]} : f.ext = "yaml" /\ f.family = "list"}

\* C6: every record the builder persists has the three top-level plugin
\* type keys, the module-declared plugins under module_based and the
\* YAML-declared ones under yaml_based.
C6_WrittenRecordHasPluginTypes ==
    \A pkg \in Pkgs :
        disk[WrittenPath(pkg)] # Missing =>
            /\ ensure_plugin_types_exist(disk[WrittenPath(pkg)])
            /\ \A f \in ModuleFiles(pkg) :
                  f.name \in NamesOf(disk[WrittenPath(pkg)], "module_based", f.interface)
            /\ \A f \in YamlFiles(pkg) :
                  f.name \in NamesOf(disk[WrittenPath(pkg)], "yaml_based", f.interface)

\* The rebuild has written a record for every package.
Rebuilt == \A pkg \in Pkgs : disk[WrittenPath(pkg)] # Missing

\* C7: once the rebuild has completed, the registry reads the records it
\* wrote: its first access to registered_plugins does not raise the
\* missing-registry error.
C7_RegistryReadsRebuiltRecords ==
    (Rebuilt /\ ~_is_test /\ result.op = "registered_plugins" /\ result.first)
        => /\ result.err # ErrMissing
           /\ \A i \in DOMAIN registry_files :
                 registry_files[i] = WrittenPath(PkgOrder[i])

\* the arguments of get_plugin_info for the plugins the builder registers
\* for a package: interface and name, or interface, source_name and name
BuilderPlugins(pkg) ==
    {<<f.interface, f.name>> : f \in ModuleFiles(pkg) \cup YamlFiles(pkg)}
        \cup UNION {UNION {{<<f.interface, f.subs[i].source_names[j], f.subs[i].name>> :
                              j \in DOMAIN f.subs[i].source_names} :
                           i \in {x \in DOMAIN f.subs : f.subs[x].name # ""
                                                        /\ f.subs[x].source_names # <<"">>}} :
                    f \in {x \in ListFiles(pkg) : x.interface = "products"}}

\* C8: with the records the builder wrote loaded, get_plugin_info returns
\* the location metadata of every plugin the builder registered, by name or
\* by (source_name, name).
C8_BuilderPluginsAreFound ==
    (_is_test /\ load_status = "ok" /\ result.op = "get_plugin_info"
       /\ \E i \in DOMAIN registry_files : result.args \in BuilderPlugins(registry_files[i][1]))
        => /\ result.outcome = "return"
           /\ "abspath" \in Keys(result.val)

\* C9: identify_plugin_type returns a plugin type under which the merged
\* registry holds the interface, and raises PluginRegistryError for an
\* interface the registry holds under no plugin type (in particular one
\* that no record it loaded registers); it returns nothing else.
C9_IdentifyPluginType ==
    result.op = "identify_plugin_type" =>
        LET interface == result.args[1]
            held == {k \in Keys(_registered_plugins) :
                        interface \in Keys(Get(_registered_plugins, k))}
        IN /\ result.outcome \in {"return", "raise"}
           /\ result.outcome = "return"
                => \E k \in held : result.val = Scalar(k)
           /\ result.outcome = "raise" => result.err \in PluginRegistryErrors
           /\ held = {} => result.outcome = "raise"
           /\ (result.first
                 /\ \A r \in DOMAIN Records : \A k \in Keys(Records[r]) :
                       NamesOf(Records[r], k, interface) = {}
                       /\ SectionOf(Records[r], k, interface) = {})
                => result.outcome = "raise"

\* A registry loaded from two records, asked for an interface neither has.
C9_Witness ==
    /\ result.op = "identify_plugin_type" /\ result.args = <<"interpolators">>
    /\ load_status = "ok" /\ reads = 2
    /\ \E k \in Keys(_registered_plugins) : Keys(Get(_registered_plugins, k)) # {}
    /\ result.outcome = "raise" /\ result.err = ErrUnknownInterface

\* C10: a record that lacks one of the three top-level plugin type keys
\* makes the load fail with PluginRegistryError, and nothing of it is merged.
C10_IncompleteRecordRejected ==
    (result.first /\ result.op \in RegistryOps)
        => \A i \in DOMAIN Records :
              (Records[i] # Missing /\ ~ensure_plugin_types_exist(Records[i])
                 /\ \A j \in 1..(i - 1) : Records[j] # Missing /\ ~Unreadable(Records[j]))
                  => /\ load_status = "failed"
                     /\ result.outcome = "raise"
                     /\ result.err \in PluginRegistryErrors
                     /\ \A j \in 1..(i - 1) :
                           ensure_plugin_types_exist(Records[j])
                               => Records[i] \cap _registered_plugins = {}

\* the files under the plugins directory of a package
Files(pkg) == {tree[pkg][i] : i \in DOMAIN tree[pkg]}

\* A YAML file of the package that cannot be parsed or that names no known
\* interface.
BrokenYaml(pkg) ==
    {f \in Files(pkg) : f.ext = "yaml" /\ (~f.parses \/ f.interface \notin KnownInterfaces)}

\* A module file that raises on import or lacks interface or name.
BrokenModules(pkg) ==
    {f \in Files(pkg) :
        f.ext = "py" /\ ~f.init /\ (f.imp # "ok" \/ f.interface = "" \/ f.name = "")}

\* The last operation was a rebuild, of the files as they are now.
RebuildRan == result.op = "create_plugin_registry"

\* C11: a module file that raises on import, whatever the error, or that
\* lacks interface or name is skipped: a rebuild of packages whose YAML
\* files are all sound does not fail, and writes every package's record.
C11_BrokenModulesAreSkipped ==
    (RebuildRan /\ \A p \in Pkgs : BrokenYaml(p) = {})
        => /\ result.outcome = "return"
           /\ \A p \in Pkgs : disk[WrittenPath(p)] # Missing

\* C12: a YAML file that cannot be parsed or that declares an unknown
\* interface makes the rebuild end with an error, never with exit status 0,
\* and no record is written for its package without it.
C12_BrokenYamlFailsRebuild ==
    /\ [](RebuildRan /\ (\E p \in Pkgs : BrokenYaml(p) # {})
             => result.outcome = "raise" /\ result.err # "")
    /\ [][result'.op = "create_plugin_registry"
            => \A p \in Pkgs :
                  BrokenYaml(p) # {} => disk'[WrittenPath(p)] = disk[WrittenPath(p)]]_vars

\* The first package was written, the second has a YAML file of an unknown
\* interface and ended the rebuild.
C12_Witness ==
    /\ RebuildRan
    /\ tree["pkgA"] = GoodTree("pkgA") /\ tree["pkgB"] = UnknownInterfaceTree("pkgB")
    /\ result.outcome = "raise" /\ result.err = "AttributeError"
    /\ disk[WrittenPath("pkgA")] # Missing /\ disk[WrittenPath("pkgB")] = Missing

\* the sub-plugins of a list-family file that lack a key the expansion reads
BadSubs(f) ==
    {i \in DOMAIN f.subs :
        _create_registered_plugin_names(f.interface, f.subs[i]) = <<"KeyError">>}

\* the names the well-formed sub-plugins of a list-family file expand to
ExpandedNames(f) ==
    UNION {LET names == _create_registered_plugin_names(f.interface, f.subs[i])
           IN {names[j] : j \in DOMAIN names} : i \in DOMAIN f.subs \ BadSubs(f)}

\* the malformed sub-plugins of the list-family files of a package
Malformed(pkg) ==
    UNION {{<<i, j>> : j \in BadSubs(tree[pkg][i])} :
              i \in {x \in DOMAIN tree[pkg] :
                        tree[pkg][x].ext = "yaml" /\ tree[pkg][x].family = "list"}}

\* the names a written record registers with the location of the file f
EntriesOf(pkg, f) ==
    {n \in NamesOf(Put(EmptyDict, "yaml_based", disk[WrittenPath(pkg)]),
                   "yaml_based", f.interface) :
        Get(Get(disk[WrittenPath(pkg)], f.interface), n)
            = YamlLeaf(pkg, f.rel, result.args[1])}

\* A module of the package raises on import an error the scan does not skip.
RaisingModules(pkg) ==
    {f \in Files(pkg) :
        f.ext = "py" /\ ~f.init /\ f.imp \notin {"ok", "ImportError", "AttributeError"}}

\* C13: a list-family file with N sub-entries of which one lacks a required
\* key registers the entries of its N-1 other sub-entries, one warning is
\* emitted for it, and the file and the package are completed.
C13_MalformedSubPluginSkipped ==
    (RebuildRan /\ \A p \in Pkgs : BrokenYaml(p) = {} /\ RaisingModules(p) = {})
        => /\ result.outcome = "return"
           /\ result.warnings = Cardinality(Malformed("pkgA")) + Cardinality(Malformed("pkgB"))
           /\ \A p \in Pkgs : \A f \in ListFiles(p) :
                 Cardinality(BadSubs(f)) = 1
                     => /\ EntriesOf(p, f) = ExpandedNames(f)
                        /\ Cardinality(EntriesOf(p, f)) = Len(f.subs) - 1
                        /\ Cardinality(Malformed(p)) = 1

\* A products file with two sub-entries, one without a name: one entry,
\* one warning, and the module after it registered.
C13_Witness ==
    /\ RebuildRan /\ result.outcome = "return" /\ result.warnings = 1
    /\ tree["pkgA"] = SkipTree("pkgA") /\ tree["pkgB"] = GoodTree("pkgB")
    /\ Keys(Get(disk[WrittenPath("pkgA")], "products")) = {"('src1', 'prodX')"}
    /\ "alg_pkgA" \in Keys(Get(disk[WrittenPath("pkgA")], "algorithms"))

\* the entries of the record written for a package: <<interface, name>>
Entries(pkg) ==
    UNION {{<<i, n>> : n \in Keys(Get(disk[WrittenPath(pkg)], i))} :
              i \in Keys(disk[WrittenPath(pkg)])}

\* record[interface][name]
Entry(pkg, e) == Get(Get(disk[WrittenPath(pkg)], e[1]), e[2])

\* C14: every entry of a written record carries package, relpath and
\* abspath, whether it comes from a YAML file, from a sub-plugin of a
\* list-family file or from a module.
C14_EntriesCarryProvenance ==
    \A p \in Pkgs : \A e \in Entries(p) :
        {"package", "relpath", "abspath"} \subseteq Keys(Entry(p, e))

\* the relative paths of the plugin files of the packages
Rels == UNION {{f.rel : f \in Files(p)} : p \in Pkgs}

\* C15: the relpath of an entry is relative to the root of its package,
\* from whatever directory the rebuild ran: the package root joined with
\* relpath is the plugin's file.
C15_RelpathIsRelativeToPackage ==
    \A p \in Pkgs : \A e \in Entries(p) :
        {"package", "relpath"} \subseteq Keys(Entry(p, e))
            => Locate(path_to_ascii(Entry(p, e)), Rels) = Value(Get(Entry(p, e), "abspath"))

\* C16: a rebuild that follows a rebuild, no plugin file edited between
\* them, leaves every package's record as the first one left it.
C16_RebuildIsIdempotent ==
    [][(RebuildRan /\ result'.op = "create_plugin_registry")
         => \A p \in Pkgs : disk'[WrittenPath(p)] = disk[WrittenPath(p)]]_vars

\* The same, for two rebuilds run from the same working directory.
RebuildFromSameDirectoryIsIdempotent ==
    [][(RebuildRan /\ result'.op = "create_plugin_registry" /\ result'.args = result.args)
         => \A p \in Pkgs : disk'[WrittenPath(p)] = disk[WrittenPath(p)]]_vars

\* the operations that validate the record the caller holds
Validations == {"validate", "validate_product"}

\* C17: validating a product that has both family and product_defaults, or
\* neither, raises a validation error; a product passes only with exactly
\* one of the two.
C17_ExactlyOneOfFamilyAndDefaults ==
    [][result'.op \in Validations
         => LET family == "family" \in Keys(product)
                defaults == "product_defaults" \in Keys(product)
            IN /\ (family /\ defaults)
                    => result'.outcome = "raise" /\ result'.err = "ValidationError"
               /\ (~family /\ ~defaults)
                    => result'.outcome = "raise" /\ result'.err = "ValidationError"
               /\ result'.outcome = "return" => (family # defaults)]_vars

\* The same for validate alone, the entry point that checks the two keys
\* before it dispatches.
ValidateChecksExclusivity ==
    [][result'.op = "validate"
         => /\ ({"family", "product_defaults"} \subseteq Keys(product)
                  \/ {"family", "product_defaults"} \cap Keys(product) = {})
                 => result'.outcome = "raise" /\ result'.err = "ValidationError"]_vars

\* the path a is the path b or leads to it
IsPrefix(a, b) == Len(a) <= Len(b) /\ SubSeq(b, 1, Len(a)) = a

\* the fields a record sets: its entries but the marks of empty dicts
Fields(t) == {e \in t : e[2] # "{}"}

\* the fields of under that no field of over sets or contains
OnlyIn(under, over) ==
    {d \in Fields(under) :
        \A e \in Fields(over) : ~IsPrefix(e[1], d[1]) /\ ~IsPrefix(d[1], e[1])}

\* the record names a product_defaults plugin that exists, and no family
NamesDefaults(prod) ==
    /\ "family" \notin Keys(prod)
    /\ "product_defaults" \in Keys(prod)
    /\ HasDefaults(Value(Get(prod, "product_defaults")))

\* C18: validating a product that names a defaults plugin copies the
\* family of the defaults onto it and merges the defaults underneath: every
\* field the product sets, at any depth, keeps its value, every field only
\* the defaults have is filled in, and no other field appears.
C18_DefaultsMergedUnderneath ==
    [][(result'.op \in Validations /\ NamesDefaults(product))
         => LET defaults == product_defaults[Value(Get(product, "product_defaults"))]
                own == Pop(product, "product_defaults")
            IN /\ result'.outcome = "return" /\ result'.val = product'
               /\ Get(product', "family") = Get(defaults, "family")
               /\ Fields(own) \subseteq product'
               /\ OnlyIn(defaults, own) \subseteq product'
               /\ Fields(product') \subseteq Fields(own) \cup Fields(defaults)]_vars

\* The product sets X and Z.a, the defaults Y, Z.a and Z.b: the validated
\* product has its own X and Z.a, and Y and Z.b of the defaults.
C18_Witness ==
    /\ result.op = "validate_product" /\ result.outcome = "return"
    /\ NamesDefaults(yaml_product)
    /\ Get(yaml_product, "spec")
         = Dict2("X", Scalar("5"), "Z", Put(EmptyDict, "a", Scalar("6")))
    /\ Get(product_defaults["Defaults1"], "spec")
         = Dict2("Y", Scalar("2"), "Z", Dict2("a", Scalar("3"), "b", Scalar("4")))
    /\ Get(product, "family") = Scalar("famB")
    /\ Get(product, "spec")
         = Dict3("X", Scalar("5"), "Y", Scalar("2"),
                 "Z", Dict2("a", Scalar("6"), "b", Scalar("4")))

\* the product as super().get_plugin hands it to get_plugin: the cached
\* plugin, or the validated entry of the products list on the first call
Resolved ==
    IF cached_plugin # Unset THEN cached_plugin ELSE validate_product(yaml_product).p

C20_OverrideValuesReplace ==
    (result.op = "get_plugin" /\ result.outcome = "return" /\ result.args[3] # NoOverride)
        => Fields(OverrideArgs(result.args[2], result.args[3]))
               \subseteq Get(result.val, "spec")

\* the spec of the product as the products list and its product_defaults
\* give it, before any override
BaseSpec == Get(validate_product(yaml_product).p, "spec")

\* C21: an override leaves the cached plugin as it was: a get_plugin
\* without overrides returns the spec the product had before any override
\* was applied, and a get_plugin with an override map returns that spec
\* merged with the block of this map only, whatever maps earlier calls passed.
C21_OverridesLeaveCacheUnchanged ==
    (result.op = "get_plugin" /\ result.outcome = "return")
        => Get(result.val, "spec")
             = IF result.args[3] = NoOverride THEN BaseSpec
               ELSE merge_nested_dicts(BaseSpec,
                                       OverrideArgs(result.args[2], result.args[3]))

\* what one undisturbed load of the records makes of the registry
Complete == Load(Self)

\* C22: the check for the attribute protects the load only as long as no
\* thread begins its access while another is within its own: then the
\* registry is initialised once, no initialisation discards plugins and,
\* the records being loadable, every thread is handed the complete
\* registry.  With two first accesses interleaved and no lock none of this
\* is kept (C22_Witness, C22_HandedEmpty).
C22_LazyCheckProtectsSequentialAccessesOnly ==
    ~overlapped
        => /\ inits <= 1
           /\ ~discarded
           /\ \A t \in Threads :
                 (handed[t] # Unset /\ Complete.err = "") => handed[t] = Complete.rp

\* Both threads went past the check before either set the attribute: the
\* registry was initialised twice, the second initialisation discarded
\* what the first thread had merged, and that thread was handed a registry
\* that holds some plugins of the loadable records but not all.
C22_Witness ==
    /\ overlapped /\ inits = 2 /\ discarded
    /\ Complete.err = ""
    /\ \E t \in Threads : handed[t] \notin {Unset, EmptyDict, Complete.rp}

\* A thread went past the check after the other had set the attribute and
\* before it had merged a record: it was handed the empty registry.
C22_HandedEmpty ==
    /\ overlapped /\ inits = 1 /\ Complete.err = "" /\ Complete.rp # EmptyDict
    /\ \E t \in Threads : handed[t] = EmptyDict

\* a docstring of one line that starts with a capital letter and ends
\* with a period
OneLineDocstring(d) ==
    /\ d # <<>> /\ ~Contains(d, "\n")
    /\ d[1] \in Uppercase /\ endswith(d, ".")

\* C23: a record with such a docstring and no description passes, and
\* its description is the first sentence of the docstring, with or without
\* its period.
C23_DescriptionDefaultsToDocstring ==
    (result.op = "PluginModel" /\ DOMAIN plugin_data = {"docstring"}
       /\ OneLineDocstring(plugin_data["docstring"]))
        => /\ result.outcome = "return"
           /\ result.val["description"] \in
                 {FirstPart(plugin_data["docstring"], "."),
                  FirstPart(plugin_data["docstring"], ".") \o <<".">>}

\* No record that leaves its description to the docstring passes.
DefaultedDescriptionNeverPasses ==
    (result.op = "PluginModel" /\ "description" \notin DOMAIN plugin_data)
        => result.outcome = "raise"

\* The fixture valid_plugin_data is rejected with a format_error.
ValidPluginDataRejected ==
    /\ result.op = "PluginModel"
    /\ plugin_data = [k \in {"docstring"} |-> ValidPluginDocstring]
    /\ result.outcome = "raise" /\ result.err = "ValidationError: format_error"

\* the step carries a field other than type, name and arguments
HasExtraField(step) == ~(DOMAIN step \subseteq {"type", "name", "arguments"})

\* a step with a valid type, a name registered for the type and valid
\* arguments: the arguments of the fixture valid_step_data, or none
ValidStep(step) ==
    /\ DOMAIN step \in {{"type", "name"}, {"type", "name", "arguments"}}
    /\ step["type"] \in ArgumentsModels
    /\ get_plugin_names(step["type"]).err = ""
    /\ step["name"] \in get_plugin_names(step["type"]).names
    /\ "arguments" \in DOMAIN step => step["arguments"] \in {<<>>, ValidStepArguments}

\* C24: every step with an extra field is rejected with an
\* extra_forbidden validation error, and every valid step is accepted with
\* its type, name and arguments as given.
C24_StepDefinitionForbidsExtraFields ==
    result.op = "ProductStepDefinitionModel"
        => /\ HasExtraField(step_data)
                => /\ result.outcome = "raise" /\ result.err = "ValidationError"
                   /\ \E i \in DOMAIN result.names : result.names[i] = "extra_forbidden"
           /\ ValidStep(step_data)
                => /\ result.outcome = "return"
                   /\ result.val["type"] = step_data["type"]
                   /\ result.val["name"] = step_data["name"]
                   /\ "arguments" \in DOMAIN step_data
                        => result.val["arguments"] = step_data["arguments"]

\* The fixture valid_step_data is rejected.
ValidStepDataRejected ==
    /\ result.op = "ProductStepDefinitionModel" /\ step_data = ValidStepData
    /\ result.outcome = "raise"

\* The fixture with unexpected_field added is rejected without the error
\* extra_forbidden.
ExtraFieldOfValidStepDataNotReported ==
    /\ result.op = "ProductStepDefinitionModel"
    /\ step_data = [k \in DOMAIN ValidStepData \cup {"unexpected_field"} |->
                      IF k = "unexpected_field" THEN "unexpected_value"
                      ELSE ValidStepData[k]]
    /\ result.outcome = "raise" /\ result.names = <<"value_error">>

\* Every step with an extra field is rejected, with one error or another.
ExtraFieldAlwaysRejected ==
    (result.op = "ProductStepDefinitionModel" /\ HasExtraField(step_data))
        => result.outcome = "raise"

\* With arguments that ReaderArgumentsModel takes (self_register a
\* string), the step is accepted as given and its extra field is reported.
StepWithStringSelfRegister ==
    (/\ result.op = "ProductStepDefinitionModel"
     /\ {"type", "name", "arguments"} \subseteq DOMAIN step_data
     /\ step_data["type"] = "reader" /\ step_data["name"] = "abi_netcdf"
     /\ step_data["arguments"] = [ValidStepArguments EXCEPT !.self_register = <<"str", "False">>])
        => IF HasExtraField(step_data)
             THEN result.names = <<"extra_forbidden">>
           ELSE result.outcome = "return" /\ result.val = step_data

\* the plugin claims the file: a text file for text_checker, a geotiff
\* file for geotiff
ClaimsFile(plugin, fname) ==
    IF plugin = "geotiff" THEN correct_file_format(fname)
    ELSE fname.ext \in {"", ".txt", ".text", ".yaml"}

\* the positions of the plugins that claim the file
Claimants == {i \in DOMAIN output_checker_plugins :
                 ClaimsFile(output_checker_plugins[i], filename)}

\* C25: select_checker tests the plugins in their order and returns the
\* first that claims the file, testing none after it; it raises TypeError
\* when none claims the file; it does nothing else.
C25_SelectCheckerFirstClaimantOrTypeError ==
    result.op = "select_checker"
        => IF Claimants = {}
             THEN /\ result.outcome = "raise" /\ result.err = "TypeError"
                  /\ result.names = output_checker_plugins
           ELSE LET first == CHOOSE i \in Claimants : \A j \in Claimants : i <= j
                IN /\ result.outcome = "return"
                   /\ result.val = Scalar(output_checker_plugins[first])
                   /\ result.names = SubSeq(output_checker_plugins, 1, first)

\* A geotiff file with the geotiff checker registered: AttributeError.
GeotiffFileHasNoChecker ==
    /\ result.op = "select_checker"
    /\ filename.ext = ".tif"
    /\ \E i \in DOMAIN output_checker_plugins : output_checker_plugins[i] = "geotiff"
    /\ result.outcome = "raise" /\ result.err = "AttributeError"

\* With text_checker alone and a text file that can be read, the outcome
\* is one of the two of the claim.
TextCheckerAloneSelects ==
    (result.op = "select_checker" /\ output_checker_plugins = <<"text_checker">>
       /\ filename.content = "text")
        => IF ClaimsFile("text_checker", filename)
             THEN result.outcome = "return" /\ result.val = Scalar("text_checker")
           ELSE result.outcome = "raise" /\ result.err = "TypeError"

\* C26: get_plugin applies one block of the override map at most: the
\* block of the product's name when the map has it, otherwise the block
\* "all" when the map has it, otherwise none.  The returned spec is the
\* spec of the product as resolved with that block merged in, so with both
\* keys in the map nothing of the block "all" is in it, and a key that is
\* the product's source_name selects nothing.
C26_OneOverrideBlockByName ==
    [][(result'.op = "get_plugin" /\ result'.outcome = "return"
          /\ result'.args[3] # NoOverride)
         => LET map == result'.args[3]
                name == result'.args[2]
                before == Get(Resolved, "spec")
                after == Get(result'.val, "spec")
                block == IF name \in Keys(map) THEN Get(map, name)
                         ELSE IF "all" \in Keys(map) THEN Get(map, "all")
                         ELSE EmptyDict
            IN /\ after = merge_nested_dicts(before, block)
               /\ Fields(after) \subseteq Fields(before) \cup Fields(block)]_vars

\* A product that sets X only, resolved first with a map that has both its
\* name and "all": Y is 8, of the block of its name, and W of "all" is absent.
C26_Witness ==
    /\ result.op = "get_plugin" /\ result.outcome = "return" /\ result.first
    /\ result.args[1] = "src1" /\ result.args[2] = "prodX"
    /\ {"prodX", "all"} \subseteq Keys(result.args[3])
    /\ "W" \in Keys(Get(result.args[3], "all"))
    /\ Get(yaml_product, "spec") = Put(EmptyDict, "X", Scalar("5"))
    /\ Get(yaml_product, "family") = Scalar("famA")
    /\ Get(result.val, "spec") = Dict2("X", Scalar("5"), "Y", Scalar("8"))

\* A map keyed by the source_name of the product changes nothing.
SourceNameSelectsNoBlock ==
    [][(result'.op = "get_plugin" /\ result'.outcome = "return"
          /\ result'.args[3] # NoOverride
          /\ Keys(result'.args[3]) = {result'.args[1]})
         => Get(result'.val, "spec") = Get(Resolved, "spec")]_vars

\* the positions in the rebuild's order of the packages whose scan fails
\* from the working directory cwd
FailingPackages(cwd) ==
    {i \in DOMAIN PkgOrder :
        parse_plugin_paths(tree[PkgOrder[i]], PkgOrder[i], cwd).err # ""}

\* C27: a rebuild that fails at package P leaves the record of P and of
\* every package after P as it was, and has rewritten the record of every
\* package before P from the files of that package.
C27_FailedPackageKeepsItsRecord ==
    [][(result'.op = "create_plugin_registry" /\ result'.outcome = "raise")
         => LET cwd == result'.args[1]
                failed == FailingPackages(cwd)
            IN /\ failed # {}
               /\ \A i \in DOMAIN PkgOrder :
                     disk'[WrittenPath(PkgOrder[i])]
                       = IF \A j \in failed : i < j
                           THEN parse_plugin_paths(tree[PkgOrder[i]], PkgOrder[i], cwd).plugins
                         ELSE disk[WrittenPath(PkgOrder[i])]]_vars

\* Both packages were built; then files of both were edited, those of the
\* second so that its scan fails.  The failed rebuild rewrote the record of
\* the first package from its new files and left the second package's
\* record of the earlier rebuild in place.
C27_Witness ==
    /\ RebuildRan /\ result.outcome = "raise"
    /\ tree["pkgA"] = SkipTree("pkgA") /\ tree["pkgB"] = BadYamlTree("pkgB")
    /\ disk[WrittenPath("pkgA")]
         = parse_plugin_paths(SkipTree("pkgA"), "pkgA", result.args[1]).plugins
    /\ disk[WrittenPath("pkgB")]
         = parse_plugin_paths(GoodTree("pkgB"), "pkgB", result.args[1]).plugins

\* the module files of a package that the scan skips: __init__.py, a
\* module whose import raises ImportError or AttributeError, a module
\* without interface or without name
SkippedModules(pkg) ==
    {i \in DOMAIN tree[pkg] :
        LET f == tree[pkg][i]
        IN f.ext = "py"
             /\ (f.init \/ f.imp \in {"ImportError", "AttributeError"}
                    \/ (f.imp = "ok" /\ (f.interface = "" \/ f.name = "")))}

\* the files of a package but the one at position i
WithoutFile(pkg, i) ==
    SubSeq(tree[pkg], 1, i - 1) \o SubSeq(tree[pkg], i + 1, Len(tree[pkg]))

\* C28: the record a rebuild writes for a package is the record it would
\* write without any one of the package's skipped module files.
C28_SkippedModuleLeavesNothing ==
    (RebuildRan /\ result.outcome = "return")
        => \A p \in Pkgs : \A i \in SkippedModules(p) :
              disk[WrittenPath(p)]
                = parse_plugin_paths(WithoutFile(p, i), p, result.args[1]).plugins

\* A module that declares interface output_checkers and no name, the only
\* file of that interface: the record has an empty section output_checkers.
NamelessModuleLeavesEmptySection ==
    /\ RebuildRan /\ result.outcome = "return"
    /\ \E p \in Pkgs :
          /\ \E i \in SkippedModules(p) :
                tree[p][i].interface = "output_checkers" /\ tree[p][i].name = ""
          /\ Get(disk[WrittenPath(p)], "output_checkers") = EmptyDict

\* A skipped module that declares no interface, or is not imported,
\* leaves nothing.
SkippedBeforeInterfaceLeavesNothing ==
    (RebuildRan /\ result.outcome = "return")
        => \A p \in Pkgs :
              \A i \in {x \in SkippedModules(p) :
                          tree[p][x].init \/ tree[p][x].imp # "ok"
                            \/ tree[p][x].interface = ""} :
                 disk[WrittenPath(p)]
                   = parse_plugin_paths(WithoutFile(p, i), p, result.args[1]).plugins

\* the record names a product_defaults plugin that cannot be resolved, and
\* no family
NamesMissingDefaults(prod) ==
    /\ "family" \notin Keys(prod)
    /\ "product_defaults" \in Keys(prod)
    /\ ~HasDefaults(Value(Get(prod, "product_defaults")))

\* C29: a validation that fails because the product_defaults plugin the
\* record names cannot be resolved leaves the record as it was.
C29_FailedDefaultsLeaveRecordUnchanged ==
    [][(result'.op \in Validations /\ NamesMissingDefaults(product))
         => result'.outcome = "raise" /\ product' = product]_vars

\* The record named a plugin that cannot be resolved; validated twice, it
\* has lost the reference and the second validation fails with another
\* error, that it has neither family nor product_defaults.
SecondValidationFailsDifferently ==
    /\ NamesMissingDefaults(yaml_product)
    /\ {"family", "product_defaults"} \cap Keys(product) = {}
    /\ result.op \in Validations
    /\ result.outcome = "raise" /\ result.err = "ValidationError"

\* the elements of a list
Elements(s) == {s[i] : i \in DOMAIN s}

\* a list without repetitions
EachOnce(s) == Cardinality(Elements(s)) = Len(s)

\* the mapping im lists, for every plugin type of rp and for no other, the
\* interfaces that are keys of rp[plugin_type], each once
MappingAgrees(im, rp) ==
    /\ EachOnce([i \in DOMAIN im |-> im[i][1]])
    /\ {im[i][1] : i \in DOMAIN im} = Keys(rp)
    /\ \A i \in DOMAIN im :
          /\ EachOnce(im[i][2])
          /\ Elements(im[i][2]) = Keys(Get(rp, im[i][1]))

\* C30: after a successful load, interface_mapping lists for every plugin
\* type exactly the interfaces that are keys of registered_plugins under
\* that type, each once; list_plugins and get_interface_plugin_names then
\* return the section of every interface that identify_plugin_type accepts.
C30_MappingAgreesWithRegistry ==
    load_status = "ok" =>
        /\ MappingAgrees(_interface_mapping, _registered_plugins)
        /\ \A interface \in QueryInterfaces :
              LET plugin_type == FirstPluginType(_interface_mapping, interface)
                  section == Get(Get(_registered_plugins, plugin_type), interface)
              IN plugin_type # "" =>
                   /\ list_plugins(Self, interface).res = Return(section)
                   /\ get_interface_plugin_names(Self, interface).res.outcome = "return"
                   /\ (result.op = "list_plugins" /\ result.args = <<interface>>)
                        => result.outcome = "return" /\ result.val = section
                   /\ (result.op = "get_interface_plugin_names"
                          /\ result.args = <<interface>>)
                        => /\ result.outcome = "return"
                           /\ Elements(result.names) = Keys(section)

\* Two records that both register algorithms were loaded, the second one
\* merged into the section of the first, and the names of both are listed.
C30_Witness ==
    /\ load_status = "ok" /\ reads = 2
    /\ result.op = "get_interface_plugin_names" /\ result.args = <<"algorithms">>
    /\ result.outcome = "return"
    /\ {"alg_pkgA", "alg_pkgB"} \subseteq Elements(result.names)
    /\ \E i \in DOMAIN _interface_mapping :
          _interface_mapping[i] = <<"module_based", <<"algorithms">> >>

====
